---- MODULE Spec2Model ----
(***************************************************************************)
(* Model of the marketing-slack-bot worker: the period resolvers of        *)
(* triplewhale.ts, the aggregation and ratios of metrics.ts, the country   *)
(* metrics and VAT correction of data.ts and the comparison formatters of  *)
(* formatting.ts.                                                          *)
(*                                                                         *)
(* A JavaScript Date is modelled by its local calendar day, counted in     *)
(* days since 1970-01-01 (the Workers runtime runs in UTC, so local and    *)
(* UTC fields agree and there is no DST); the time of day never reaches a  *)
(* result because every resolver formats its dates with formatLocalDate.   *)
(* A 'YYYY-MM-DD' string is modelled by its three zero-padded numeric      *)
(* fields, compared lexicographically as the strings are.                  *)
(***************************************************************************)
EXTENDS Integers, Sequences, FiniteSets, TLC

VARIABLES now, fn, args, ret, dailyMetrics, metrics, allData, countries

vars == <<now, fn, args, ret, dailyMetrics, metrics, allData, countries>>

(***************************************************************************)
(* Bounds                                                                  *)
(***************************************************************************)
MinYear == 2021
MaxYear == 2026
MaxDaysBack == 1
MaxWeeksAgo == 3
MaxDays == 2

(***************************************************************************)
(* The Date object (ECMAScript time values, in whole days)                 *)
(***************************************************************************)
IsLeapYear(y) == (y % 4 = 0) /\ ((y % 100 # 0) \/ (y % 400 = 0))

DayFromYear(y) ==
    365 * (y - 1970) + ((y - 1969) \div 4) - ((y - 1901) \div 100)
        + ((y - 1601) \div 400)

\* getFullYear
YearFromTime(t) ==
    CHOOSE y \in (1970 + (t \div 366))..(1970 + (t \div 365)) :
        DayFromYear(y) <= t /\ t < DayFromYear(y + 1)

\* first day-within-year of month m (0-indexed)
MonthStartDay(y, m) ==
    <<0, 31, 59, 90, 120, 151, 181, 212, 243, 273, 304, 334>>[m + 1]
        + (IF m >= 2 /\ IsLeapYear(y) THEN 1 ELSE 0)

\* getMonth (0-indexed)
MonthFromTime(t) ==
    LET y == YearFromTime(t)
        dy == t - DayFromYear(y)
    IN  CHOOSE m \in 0..11 :
            /\ MonthStartDay(y, m) <= dy
            /\ (m = 11 \/ dy < MonthStartDay(y, m + 1))

\* getDate (day of month, 1-based)
DateFromTime(t) ==
    LET y == YearFromTime(t)
    IN  t - DayFromYear(y) - MonthStartDay(y, MonthFromTime(t)) + 1

\* getDay: 0 = Sunday .. 6 = Saturday (1970-01-01 was a Thursday)
WeekDay(t) == (t + 4) % 7

\* new Date(year, month, date) / Date.UTC(year, month, date): month and
\* date outside their ranges roll over into the neighbouring months
MakeDay(year, month, date) ==
    LET ym == year + (month \div 12)
        mn == month % 12
    IN  DayFromYear(ym) + MonthStartDay(ym, mn) + date - 1

\* date.setDate(n)
SetDate(t, n) == MakeDay(YearFromTime(t), MonthFromTime(t), n)

\* date.setFullYear(y)
SetFullYear(t, y) == MakeDay(y, MonthFromTime(t), DateFromTime(t))

(***************************************************************************)
(* Date strings                                                            *)
(***************************************************************************)
formatLocalDate(date) ==
    [year  |-> YearFromTime(date),
     month |-> MonthFromTime(date) + 1,
     day   |-> DateFromTime(date)]

\* new Date(str + 'T00:00:00')
ParseLocalDate(str) == MakeDay(str.year, str.month - 1, str.day)

\* a <= b on 'YYYY-MM-DD' strings
StrLE(a, b) ==
    \/ a.year < b.year
    \/ a.year = b.year /\ a.month < b.month
    \/ a.year = b.year /\ a.month = b.month /\ a.day <= b.day

(***************************************************************************)
(* Period resolvers (triplewhale.ts)                                       *)
(***************************************************************************)
\* getWeekNumber without the '|| 7': Sunday counted as day 0 of the week
getWeekNumber_SundayZero(date) ==
    LET d0 == MakeDay(YearFromTime(date), MonthFromTime(date), DateFromTime(date))
        dayNum == WeekDay(d0)
        d == SetDate(d0, DateFromTime(d0) + 4 - dayNum)
        yearStart == MakeDay(YearFromTime(d), 0, 1)
    IN  ((d - yearStart) + 1 + 6) \div 7

getWeekNumber(date) ==
    LET d0 == MakeDay(YearFromTime(date), MonthFromTime(date), DateFromTime(date))
        dayNum == IF WeekDay(d0) = 0 THEN 7 ELSE WeekDay(d0)
        d == SetDate(d0, DateFromTime(d0) + 4 - dayNum)
        yearStart == MakeDay(YearFromTime(d), 0, 1)
    IN  \* Math.ceil(((d - yearStart) / 86400000 + 1) / 7)
        ((d - yearStart) + 1 + 6) \div 7

\* getSameDayLastYear as a shift by 365 days
getSameDayLastYear_Minus365(date) ==
    LET lastYear == date - 365
        dateStr == formatLocalDate(lastYear)
    IN  [start |-> dateStr, end |-> dateStr]

getSameDayLastYear(date) ==
    LET lastYear == SetFullYear(date, YearFromTime(date) - 1)
        dateStr == formatLocalDate(lastYear)
    IN  [start |-> dateStr, end |-> dateStr]

\* getSameWeekLastYear offsetting by weekNumber * 7 days
getSameWeekLastYear_OffByOneWeek(weekNumber, currentYear) ==
    LET jan4 == MakeDay(currentYear - 1, 0, 4)
        dayOfWeek == IF WeekDay(jan4) = 0 THEN 7 ELSE WeekDay(jan4)
        firstMonday == SetDate(jan4, DateFromTime(jan4) - dayOfWeek + 1)
        targetMonday == SetDate(firstMonday,
                                DateFromTime(firstMonday) + weekNumber * 7)
        targetSunday == SetDate(targetMonday, DateFromTime(targetMonday) + 6)
    IN  [start |-> formatLocalDate(targetMonday),
         end   |-> formatLocalDate(targetSunday)]

getSameWeekLastYear(weekNumber, currentYear) ==
    LET jan4 == MakeDay(currentYear - 1, 0, 4)
        dayOfWeek == IF WeekDay(jan4) = 0 THEN 7 ELSE WeekDay(jan4)
        firstMonday == SetDate(jan4, DateFromTime(jan4) - dayOfWeek + 1)
        targetMonday == SetDate(firstMonday,
                                DateFromTime(firstMonday) + (weekNumber - 1) * 7)
        targetSunday == SetDate(targetMonday, DateFromTime(targetMonday) + 6)
    IN  [start |-> formatLocalDate(targetMonday),
         end   |-> formatLocalDate(targetSunday)]

getSameMonthLastYear(month, year) ==
    LET lastYear == year - 1
        startDate == MakeDay(lastYear, month, 1)
        endDate == MakeDay(lastYear, month + 1, 0)
    IN  [start |-> formatLocalDate(startDate), end |-> formatLocalDate(endDate)]

\* getPreviousMonthPeriod taking the last day one month too early
getPreviousMonthPeriod_EarlyEnd(today) ==
    LET prevMonth == MakeDay(YearFromTime(today), MonthFromTime(today) - 1, 1)
        lastDay == MakeDay(YearFromTime(today), MonthFromTime(today) - 1, 0)
    IN  [start |-> formatLocalDate(prevMonth),
         end   |-> formatLocalDate(lastDay),
         month |-> MonthFromTime(prevMonth),
         year  |-> YearFromTime(prevMonth)]

getPreviousMonthPeriod(today) ==
    LET prevMonth == MakeDay(YearFromTime(today), MonthFromTime(today) - 1, 1)
        lastDay == MakeDay(YearFromTime(today), MonthFromTime(today), 0)
    IN  [start |-> formatLocalDate(prevMonth),
         end   |-> formatLocalDate(lastDay),
         month |-> MonthFromTime(prevMonth),
         year  |-> YearFromTime(prevMonth)]

getMonthPeriod(month, year) ==
    LET startDate == MakeDay(year, month, 1)
        endDate == MakeDay(year, month + 1, 0)
    IN  [start |-> formatLocalDate(startDate), end |-> formatLocalDate(endDate)]

\* getWeekPeriod without the Sunday case of daysToMonday
getWeekPeriod_SundayFirst(today, weeksAgo) ==
    LET dayOfWeek == WeekDay(today)
        daysToMonday == dayOfWeek - 1
        monday == SetDate(today, DateFromTime(today) - daysToMonday - (weeksAgo * 7))
        sunday == SetDate(monday, DateFromTime(monday) + 6)
    IN  [start |-> formatLocalDate(monday), end |-> formatLocalDate(sunday)]

getWeekPeriod(today, weeksAgo) ==
    LET dayOfWeek == WeekDay(today)
        daysToMonday == IF dayOfWeek = 0 THEN 6 ELSE dayOfWeek - 1
        monday == SetDate(today, DateFromTime(today) - daysToMonday - (weeksAgo * 7))
        sunday == SetDate(monday, DateFromTime(monday) + 6)
    IN  [start |-> formatLocalDate(monday), end |-> formatLocalDate(sunday)]

monthsNo == <<"jan", "feb", "mar", "apr", "mai", "jun",
              "jul", "aug", "sep", "okt", "nov", "des">>

getYesterdayPeriod(today) ==
    LET yesterday == SetDate(today, DateFromTime(today) - 1)
        dateStr == formatLocalDate(yesterday)
    IN  [start |-> dateStr,
         end   |-> dateStr,
         dateLabel |-> <<DateFromTime(yesterday),
                         monthsNo[MonthFromTime(yesterday) + 1],
                         YearFromTime(yesterday)>>]

weekdayNames == <<"Mon", "Tue", "Wed", "Thu", "Fri", "Sat", "Sun">>

\* getWTDPeriod comparing against the whole Monday-to-Sunday week of last year
getWTDPeriod_FullWeekYoY(yesterday) ==
    LET dayOfWeek == WeekDay(yesterday)
        daysFromMonday == IF dayOfWeek = 0 THEN 6 ELSE dayOfWeek - 1
        monday == SetDate(yesterday, DateFromTime(yesterday) - daysFromMonday)
        startDay == weekdayNames[1]
        endDay == weekdayNames[daysFromMonday + 1]
        label == IF daysFromMonday = 0 THEN <<startDay>> ELSE <<startDay, endDay>>
        weekNumber == getWeekNumber(yesterday)
        yearForWeek == YearFromTime(yesterday)
        lastYearWeek == getSameWeekLastYear(weekNumber, yearForWeek)
        yoyMonday == ParseLocalDate(lastYearWeek.start)
        yoyEnd == ParseLocalDate(lastYearWeek.end)
    IN  [start    |-> formatLocalDate(monday),
         end      |-> formatLocalDate(yesterday),
         yoyStart |-> formatLocalDate(yoyMonday),
         yoyEnd   |-> formatLocalDate(yoyEnd),
         label    |-> label]

getWTDPeriod(yesterday) ==
    LET dayOfWeek == WeekDay(yesterday)
        daysFromMonday == IF dayOfWeek = 0 THEN 6 ELSE dayOfWeek - 1
        monday == SetDate(yesterday, DateFromTime(yesterday) - daysFromMonday)
        startDay == weekdayNames[1]
        endDay == weekdayNames[daysFromMonday + 1]
        label == IF daysFromMonday = 0 THEN <<startDay>> ELSE <<startDay, endDay>>
        weekNumber == getWeekNumber(yesterday)
        yearForWeek == YearFromTime(yesterday)
        lastYearWeek == getSameWeekLastYear(weekNumber, yearForWeek)
        yoyMonday == ParseLocalDate(lastYearWeek.start)
        yoyEnd == SetDate(yoyMonday, DateFromTime(yoyMonday) + daysFromMonday)
    IN  [start    |-> formatLocalDate(monday),
         end      |-> formatLocalDate(yesterday),
         yoyStart |-> formatLocalDate(yoyMonday),
         yoyEnd   |-> formatLocalDate(yoyEnd),
         label    |-> label]

monthNames == <<"Jan", "Feb", "Mar", "Apr", "May", "Jun",
                "Jul", "Aug", "Sep", "Oct", "Nov", "Dec">>

\* getMTDPeriod deriving yoyEnd from the month start instead of the end date
getMTDPeriod_YoYEndFromStart(endDate) ==
    LET monthStart == MakeDay(YearFromTime(endDate), MonthFromTime(endDate), 1)
        monthName == monthNames[MonthFromTime(endDate) + 1]
        label == <<monthName, DateFromTime(monthStart), DateFromTime(endDate)>>
        yoyStart == SetFullYear(monthStart, YearFromTime(monthStart) - 1)
        yoyEnd == SetFullYear(monthStart, YearFromTime(monthStart) - 1)
    IN  [start    |-> formatLocalDate(monthStart),
         end      |-> formatLocalDate(endDate),
         yoyStart |-> formatLocalDate(yoyStart),
         yoyEnd   |-> formatLocalDate(yoyEnd),
         label    |-> label]

getMTDPeriod(endDate) ==
    LET monthStart == MakeDay(YearFromTime(endDate), MonthFromTime(endDate), 1)
        monthName == monthNames[MonthFromTime(endDate) + 1]
        label == <<monthName, DateFromTime(monthStart), DateFromTime(endDate)>>
        yoyStart == SetFullYear(monthStart, YearFromTime(monthStart) - 1)
        yoyEnd == SetFullYear(endDate, YearFromTime(endDate) - 1)
    IN  [start    |-> formatLocalDate(monthStart),
         end      |-> formatLocalDate(endDate),
         yoyStart |-> formatLocalDate(yoyStart),
         yoyEnd   |-> formatLocalDate(yoyEnd),
         label    |-> label]

(***************************************************************************)
(* State machine of the resolvers: 'now' is the instant new Date() reads;  *)
(* a call records the function, its arguments and the returned value, and  *)
(* the caller then takes the value (Return).                               *)
(***************************************************************************)
FirstDay == MakeDay(MinYear, 0, 1)
LastDay == MakeDay(MaxYear, 11, 31)
Days == FirstDay..LastDay

\* the dates a through-date or data-day argument is derived from
ThroughDates == {now - k : k \in 0..MaxDaysBack}

NoArgs == [none |-> TRUE]
NoRet == [none |-> TRUE]
NoMetrics == [none |-> TRUE]
\* new Map()
NoData == <<>>

Idle == fn = "idle"

PeriodInit ==
    /\ now \in Days
    /\ fn = "idle"
    /\ args = NoArgs
    /\ ret = NoRet
    /\ dailyMetrics = <<>>
    /\ metrics = NoMetrics
    /\ allData = NoData
    /\ countries = <<>>

Call(f, a, r) ==
    /\ Idle
    /\ fn' = f
    /\ args' = a
    /\ ret' = r
    /\ UNCHANGED <<now, dailyMetrics, metrics, allData, countries>>

CallGetWeekNumber ==
    \E t \in ThroughDates :
        Call("getWeekNumber", [date |-> t], [week |-> getWeekNumber(t)])

CallGetSameDayLastYear ==
    \E t \in ThroughDates :
        Call("getSameDayLastYear", [date |-> t], getSameDayLastYear(t))

CallGetSameWeekLastYear ==
    \E w \in 1..53 :
        Call("getSameWeekLastYear",
             [weekNumber |-> w, currentYear |-> YearFromTime(now)],
             getSameWeekLastYear(w, YearFromTime(now)))

CallGetSameMonthLastYear ==
    \E m \in 0..11 :
        Call("getSameMonthLastYear",
             [month |-> m, year |-> YearFromTime(now)],
             getSameMonthLastYear(m, YearFromTime(now)))

CallGetPreviousMonthPeriod ==
    Call("getPreviousMonthPeriod", NoArgs, getPreviousMonthPeriod(now))

\* the monthly trend loop: getMonthPeriod(month + 1, year), month in 0..11
CallGetMonthPeriod ==
    \E month \in 0..11 :
        Call("getMonthPeriod",
             [month |-> month + 1, year |-> YearFromTime(now)],
             getMonthPeriod(month + 1, YearFromTime(now)))

CallGetWeekPeriod ==
    \E weeksAgo \in 0..MaxWeeksAgo :
        Call("getWeekPeriod", [weeksAgo |-> weeksAgo], getWeekPeriod(now, weeksAgo))

CallGetYesterdayPeriod ==
    Call("getYesterdayPeriod", NoArgs, getYesterdayPeriod(now))

CallGetWTDPeriod ==
    \E t \in ThroughDates :
        Call("getWTDPeriod", [date |-> t], getWTDPeriod(t))

CallGetMTDPeriod ==
    \E t \in ThroughDates :
        Call("getMTDPeriod", [date |-> t], getMTDPeriod(t))

Return ==
    /\ ~Idle
    /\ fn' = "idle"
    /\ args' = NoArgs
    /\ ret' = NoRet
    /\ UNCHANGED <<now, dailyMetrics, metrics, allData, countries>>

PeriodNext ==
    \/ CallGetWeekNumber
    \/ CallGetSameDayLastYear
    \/ CallGetSameWeekLastYear
    \/ CallGetSameMonthLastYear
    \/ CallGetPreviousMonthPeriod
    \/ CallGetMonthPeriod
    \/ CallGetWeekPeriod
    \/ CallGetYesterdayPeriod
    \/ CallGetWTDPeriod
    \/ CallGetMTDPeriod
    \/ Return

Init == PeriodInit
Next == PeriodNext
Spec == Init /\ [][Next]_vars

(***************************************************************************)
(* Period aggregation (metrics.ts)                                         *)
(*                                                                         *)
(* Amounts are whole numbers; a JavaScript number that results from a      *)
(* division is modelled by the exact fraction num/den, and null by the     *)
(* value with null = TRUE.                                                 *)
(***************************************************************************)
Null == [null |-> TRUE, num |-> 0, den |-> 1]

\* a / b
Div(a, b) == [null |-> FALSE, num |-> a, den |-> b]

\* r * k
Times(r, k) == [null |-> FALSE, num |-> r.num * k, den |-> r.den]

\* the accumulators before the loop
ZeroTotals ==
    [revenue |-> 0,
     spend |-> 0,
     orders |-> 0,
     newCustomerOrders |-> 0,
     metaSpend |-> 0,
     metaPixelRevenue |-> 0,
     metaChannelRevenue |-> 0,
     metaPixelNcRevenue |-> 0,
     googleSpend |-> 0,
     googlePixelRevenue |-> 0,
     googleChannelRevenue |-> 0,
     googlePixelNcRevenue |-> 0,
     tiktokSpend |-> 0,
     tiktokPixelRevenue |-> 0,
     tiktokChannelRevenue |-> 0,
     tiktokPixelNcRevenue |-> 0]

\* one iteration of the loop over dailyMetrics
AddDay(acc, day) ==
    [revenue |-> acc.revenue + day.orderRevenue,
     spend |-> acc.spend + day.spend,
     orders |-> acc.orders + day.orders,
     newCustomerOrders |-> acc.newCustomerOrders + day.newCustomerOrders,
     metaSpend |-> acc.metaSpend + day.metaSpend,
     metaPixelRevenue |-> acc.metaPixelRevenue + day.metaPixelRevenue,
     metaChannelRevenue |-> acc.metaChannelRevenue + day.metaChannelRevenue,
     metaPixelNcRevenue |-> acc.metaPixelNcRevenue + day.metaPixelNcRevenue,
     googleSpend |-> acc.googleSpend + day.googleSpend,
     googlePixelRevenue |-> acc.googlePixelRevenue + day.googlePixelRevenue,
     googleChannelRevenue |-> acc.googleChannelRevenue + day.googleChannelRevenue,
     googlePixelNcRevenue |-> acc.googlePixelNcRevenue + day.googlePixelNcRevenue,
     tiktokSpend |-> acc.tiktokSpend + day.tiktokSpend,
     tiktokPixelRevenue |-> acc.tiktokPixelRevenue + day.tiktokPixelRevenue,
     tiktokChannelRevenue |-> acc.tiktokChannelRevenue + day.tiktokChannelRevenue,
     tiktokPixelNcRevenue |-> acc.tiktokPixelNcRevenue + day.tiktokPixelNcRevenue]

\* for (const day of dailyMetrics) { ... }
SumDays(days) ==
    LET acc[i \in 0..Len(days)] ==
            IF i = 0 THEN ZeroTotals ELSE AddDay(acc[i - 1], days[i])
    IN  acc[Len(days)]

\* aggregatePeriodMetrics reporting an AOV of 0 for a period without orders
aggregatePeriodMetrics_ZeroAov(dailyMetrics_) ==
    IF Len(dailyMetrics_) = 0
    THEN [revenue |-> 0,
         spend |-> 0,
         orders |-> 0,
         newCustomerOrders |-> 0,
         mer |-> Null,
         ncPercent |-> Null,
         aov |-> Null,
         metaSpend |-> 0,
         metaPixelRevenue |-> 0,
         metaChannelRevenue |-> 0,
         metaPixelNcRevenue |-> 0,
         googleSpend |-> 0,
         googlePixelRevenue |-> 0,
         googleChannelRevenue |-> 0,
         googlePixelNcRevenue |-> 0,
         tiktokSpend |-> 0,
         tiktokPixelRevenue |-> 0,
         tiktokChannelRevenue |-> 0,
         tiktokPixelNcRevenue |-> 0,
         daysWithData |-> 0]
    ELSE LET t == SumDays(dailyMetrics_)
         IN [revenue |-> t.revenue,
             spend |-> t.spend,
             orders |-> t.orders,
             newCustomerOrders |-> t.newCustomerOrders,
             mer |-> IF t.revenue > 0
                     THEN Times(Div(t.spend, t.revenue), 100) ELSE Null,
             ncPercent |-> IF t.orders > 0
                           THEN Times(Div(t.newCustomerOrders, t.orders), 100)
                           ELSE Null,
             aov |-> IF t.orders > 0 THEN Div(t.revenue, t.orders) ELSE Div(0, 1),
             metaSpend |-> t.metaSpend,
             metaPixelRevenue |-> t.metaPixelRevenue,
             metaChannelRevenue |-> t.metaChannelRevenue,
             metaPixelNcRevenue |-> t.metaPixelNcRevenue,
             googleSpend |-> t.googleSpend,
             googlePixelRevenue |-> t.googlePixelRevenue,
             googleChannelRevenue |-> t.googleChannelRevenue,
             googlePixelNcRevenue |-> t.googlePixelNcRevenue,
             tiktokSpend |-> t.tiktokSpend,
             tiktokPixelRevenue |-> t.tiktokPixelRevenue,
             tiktokChannelRevenue |-> t.tiktokChannelRevenue,
             tiktokPixelNcRevenue |-> t.tiktokPixelNcRevenue,
             daysWithData |-> Len(dailyMetrics_)]

aggregatePeriodMetrics(dailyMetrics_) ==
    IF Len(dailyMetrics_) = 0
    THEN [revenue |-> 0,
         spend |-> 0,
         orders |-> 0,
         newCustomerOrders |-> 0,
         mer |-> Null,
         ncPercent |-> Null,
         aov |-> Null,
         metaSpend |-> 0,
         metaPixelRevenue |-> 0,
         metaChannelRevenue |-> 0,
         metaPixelNcRevenue |-> 0,
         googleSpend |-> 0,
         googlePixelRevenue |-> 0,
         googleChannelRevenue |-> 0,
         googlePixelNcRevenue |-> 0,
         tiktokSpend |-> 0,
         tiktokPixelRevenue |-> 0,
         tiktokChannelRevenue |-> 0,
         tiktokPixelNcRevenue |-> 0,
         daysWithData |-> 0]
    ELSE LET t == SumDays(dailyMetrics_)
         IN [revenue |-> t.revenue,
             spend |-> t.spend,
             orders |-> t.orders,
             newCustomerOrders |-> t.newCustomerOrders,
             mer |-> IF t.revenue > 0
                     THEN Times(Div(t.spend, t.revenue), 100) ELSE Null,
             ncPercent |-> IF t.orders > 0
                           THEN Times(Div(t.newCustomerOrders, t.orders), 100)
                           ELSE Null,
             aov |-> IF t.orders > 0 THEN Div(t.revenue, t.orders) ELSE Null,
             metaSpend |-> t.metaSpend,
             metaPixelRevenue |-> t.metaPixelRevenue,
             metaChannelRevenue |-> t.metaChannelRevenue,
             metaPixelNcRevenue |-> t.metaPixelNcRevenue,
             googleSpend |-> t.googleSpend,
             googlePixelRevenue |-> t.googlePixelRevenue,
             googleChannelRevenue |-> t.googleChannelRevenue,
             googlePixelNcRevenue |-> t.googlePixelNcRevenue,
             tiktokSpend |-> t.tiktokSpend,
             tiktokPixelRevenue |-> t.tiktokPixelRevenue,
             tiktokChannelRevenue |-> t.tiktokChannelRevenue,
             tiktokPixelNcRevenue |-> t.tiktokPixelNcRevenue,
             daysWithData |-> Len(dailyMetrics_)]

(***************************************************************************)
(* Channel ratios (metrics.ts)                                             *)
(***************************************************************************)
calculateChannelROAS(spend, pixelRevenue, channelRevenue, ncRevenue) ==
    IF spend <= 0
    THEN [pixelROAS |-> Null, channelROAS |-> Null, ncROAS |-> Null]
    ELSE [pixelROAS |-> Div(pixelRevenue, spend),
          channelROAS |-> Div(channelRevenue, spend),
          ncROAS |-> Div(ncRevenue, spend)]

\* the object pushed for one channel; ...(includeNcOrders && { ncOrders: 0 })
ChannelEntry(name, spend, pixelRevenue, channelRevenue, ncRevenue, includeNcOrders) ==
    LET roas == calculateChannelROAS(spend, pixelRevenue, channelRevenue, ncRevenue)
    IN  IF includeNcOrders
        THEN [channel |-> name, spend |-> spend, pixelROAS |-> roas.pixelROAS,
              channelROAS |-> roas.channelROAS, ncROAS |-> roas.ncROAS,
              ncOrders |-> 0]
        ELSE [channel |-> name, spend |-> spend, pixelROAS |-> roas.pixelROAS,
              channelROAS |-> roas.channelROAS, ncROAS |-> roas.ncROAS]

\* getChannelMetrics with the Google test made on revenue instead of spend
getChannelMetrics_GoogleByRevenue(metrics_, includeNcOrders) ==
    LET meta == IF metrics_.metaSpend > 0
                THEN <<ChannelEntry("Meta", metrics_.metaSpend,
                                    metrics_.metaPixelRevenue,
                                    metrics_.metaChannelRevenue,
                                    metrics_.metaPixelNcRevenue, includeNcOrders)>>
                ELSE <<>>
        google == IF metrics_.googlePixelRevenue > 0
                  THEN <<ChannelEntry("Google", metrics_.googleSpend,
                                      metrics_.googlePixelRevenue,
                                      metrics_.googleChannelRevenue,
                                      metrics_.googlePixelNcRevenue, includeNcOrders)>>
                  ELSE <<>>
        tiktok == IF metrics_.tiktokSpend > 0
                  THEN <<ChannelEntry("TikTok", metrics_.tiktokSpend,
                                      metrics_.tiktokPixelRevenue,
                                      metrics_.tiktokChannelRevenue,
                                      metrics_.tiktokPixelNcRevenue, includeNcOrders)>>
                  ELSE <<>>
    IN  meta \o google \o tiktok

getChannelMetrics(metrics_, includeNcOrders) ==
    LET meta == IF metrics_.metaSpend > 0
                THEN <<ChannelEntry("Meta", metrics_.metaSpend,
                                    metrics_.metaPixelRevenue,
                                    metrics_.metaChannelRevenue,
                                    metrics_.metaPixelNcRevenue, includeNcOrders)>>
                ELSE <<>>
        google == IF metrics_.googleSpend > 0
                  THEN <<ChannelEntry("Google", metrics_.googleSpend,
                                      metrics_.googlePixelRevenue,
                                      metrics_.googleChannelRevenue,
                                      metrics_.googlePixelNcRevenue, includeNcOrders)>>
                  ELSE <<>>
        tiktok == IF metrics_.tiktokSpend > 0
                  THEN <<ChannelEntry("TikTok", metrics_.tiktokSpend,
                                      metrics_.tiktokPixelRevenue,
                                      metrics_.tiktokChannelRevenue,
                                      metrics_.tiktokPixelNcRevenue, includeNcOrders)>>
                  ELSE <<>>
    IN  meta \o google \o tiktok

(***************************************************************************)
(* Arithmetic on numbers that are not whole: every number is the exact     *)
(* fraction num/den with den > 0, kept in lowest terms.                    *)
(***************************************************************************)
\* the number n
Num(n) == Div(n, 1)

RECURSIVE Gcd(_, _)
Gcd(a, b) == IF b = 0 THEN a ELSE Gcd(b, a % b)

Abs(n) == IF n < 0 THEN -n ELSE n

\* the fraction n/d in lowest terms, d # 0
Frac(n, d) ==
    LET g == Gcd(Abs(n), Abs(d))
    IN  IF d > 0
        THEN [null |-> FALSE, num |-> n \div g, den |-> d \div g]
        ELSE [null |-> FALSE, num |-> (-n) \div g, den |-> (-d) \div g]

\* r + q
QAdd(r, q) == Frac(r.num * q.den + q.num * r.den, r.den * q.den)

\* r - q
QSub(r, q) == Frac(r.num * q.den - q.num * r.den, r.den * q.den)

\* r * q
QMul(r, q) ==
    LET a == Frac(r.num, q.den)
        b == Frac(q.num, r.den)
    IN  Frac(a.num * b.num, a.den * b.den)

\* r / q, for q # 0
QDiv(r, q) == QMul(r, Frac(q.den, q.num))

\* r < q
QLess(r, q) == r.num * q.den < q.num * r.den

\* x ?? 0
OrZero(x) == IF x.null THEN Num(0) ELSE x

(***************************************************************************)
(* Shops (shops.ts)                                                        *)
(***************************************************************************)
SHOPS ==
    << [code |-> "NO", exchangeRateToNOK |-> Div(100, 100), vatRate |-> Div(25, 100)],
       [code |-> "SE", exchangeRateToNOK |-> Div(102, 100), vatRate |-> Div(25, 100)],
       [code |-> "DK", exchangeRateToNOK |-> Div(160, 100), vatRate |-> Div(25, 100)],
       [code |-> "FI", exchangeRateToNOK |-> Div(1180, 100), vatRate |-> Div(255, 1000)],
       [code |-> "DE", exchangeRateToNOK |-> Div(1180, 100), vatRate |-> Div(19, 100)],
       [code |-> "NL", exchangeRateToNOK |-> Div(1180, 100), vatRate |-> Div(21, 100)],
       [code |-> "UK", exchangeRateToNOK |-> Div(1400, 100), vatRate |-> Div(20, 100)],
       [code |-> "COM", exchangeRateToNOK |-> Div(1100, 100), vatRate |-> Div(25, 100)] >>

(***************************************************************************)
(* Country metrics (data.ts, sheets.ts)                                    *)
(***************************************************************************)
\* getMetricsForPeriod with the end date left out
getMetricsForPeriod_ExclusiveEnd(allData_, startDate, endDate) ==
    LET InPeriod(m) == StrLE(startDate, m.date) /\ StrLE(m.date, endDate)
                       /\ m.date # endDate
    IN  SelectSeq(allData_, InPeriod)

\* allData.filter(m => m.date >= startDate && m.date <= endDate)
getMetricsForPeriod(allData_, startDate, endDate) ==
    LET InPeriod(m) == StrLE(startDate, m.date) /\ StrLE(m.date, endDate)
    IN  SelectSeq(allData_, InPeriod)

calculateYoY(current, previous) ==
    IF previous.num <= 0
    THEN Null
    ELSE QMul(QSub(QDiv(current, previous), Num(1)), Num(100))

\* getCountryMetrics with the ratio taken over the revenue instead of the spend
getCountryMetrics_RevenueGuard(shop, currentData, yoyData, includeNcOrders) ==
    LET current == aggregatePeriodMetrics(currentData)
        yoy == aggregatePeriodMetrics(yoyData)
        revenueNOK == QMul(Num(current.revenue), shop.exchangeRateToNOK)
        yoyRevenueNOK == QMul(Num(yoy.revenue), shop.exchangeRateToNOK)
        spendNOK == QMul(Num(current.spend), shop.exchangeRateToNOK)
        aovNOK == QMul(OrZero(current.aov), shop.exchangeRateToNOK)
        totalNcRevenue ==
            QMul(Num(current.metaPixelNcRevenue + current.googlePixelNcRevenue
                     + current.tiktokPixelNcRevenue),
                 shop.exchangeRateToNOK)
        roas == IF revenueNOK.num > 0 /\ spendNOK.num > 0
                THEN QDiv(spendNOK, revenueNOK) ELSE Num(0)
        ncRoas == IF spendNOK.num > 0 THEN QDiv(totalNcRevenue, spendNOK) ELSE Num(0)
        channels == getChannelMetrics(current, includeNcOrders)
        channelsNOK ==
            [i \in 1..Len(channels) |->
                [channels[i] EXCEPT !.spend = QMul(Num(@), shop.exchangeRateToNOK)]]
    IN  [shop |-> shop,
         revenue |-> revenueNOK,
         revenueYoY |-> IF yoyRevenueNOK.num > 0 THEN yoyRevenueNOK ELSE Null,
         spend |-> spendNOK,
         roas |-> roas,
         ncRoas |-> ncRoas,
         ncPercent |-> OrZero(current.ncPercent),
         orders |-> current.orders,
         aov |-> aovNOK,
         channels |-> channelsNOK]

getCountryMetrics(shop, currentData, yoyData, includeNcOrders) ==
    LET current == aggregatePeriodMetrics(currentData)
        yoy == aggregatePeriodMetrics(yoyData)
        revenueNOK == QMul(Num(current.revenue), shop.exchangeRateToNOK)
        yoyRevenueNOK == QMul(Num(yoy.revenue), shop.exchangeRateToNOK)
        spendNOK == QMul(Num(current.spend), shop.exchangeRateToNOK)
        aovNOK == QMul(OrZero(current.aov), shop.exchangeRateToNOK)
        totalNcRevenue ==
            QMul(Num(current.metaPixelNcRevenue + current.googlePixelNcRevenue
                     + current.tiktokPixelNcRevenue),
                 shop.exchangeRateToNOK)
        roas == IF spendNOK.num > 0 THEN QDiv(revenueNOK, spendNOK) ELSE Num(0)
        ncRoas == IF spendNOK.num > 0 THEN QDiv(totalNcRevenue, spendNOK) ELSE Num(0)
        channels == getChannelMetrics(current, includeNcOrders)
        channelsNOK ==
            [i \in 1..Len(channels) |->
                [channels[i] EXCEPT !.spend = QMul(Num(@), shop.exchangeRateToNOK)]]
    IN  [shop |-> shop,
         revenue |-> revenueNOK,
         revenueYoY |-> IF yoyRevenueNOK.num > 0 THEN yoyRevenueNOK ELSE Null,
         spend |-> spendNOK,
         roas |-> roas,
         ncRoas |-> ncRoas,
         ncPercent |-> OrZero(current.ncPercent),
         orders |-> current.orders,
         aov |-> aovNOK,
         channels |-> channelsNOK]

\* the getCountryMetrics that follows the type declarations in types.ts
getCountryMetrics_typesTs(shop, currentData, yoyData, includeNcOrders) ==
    LET current == aggregatePeriodMetrics(currentData)
        yoy == aggregatePeriodMetrics(yoyData)
        revenueNOK == QMul(Num(current.revenue), shop.exchangeRateToNOK)
        yoyRevenueNOK == QMul(Num(yoy.revenue), shop.exchangeRateToNOK)
        spendNOK == QMul(Num(current.spend), shop.exchangeRateToNOK)
        channels == getChannelMetrics(current, includeNcOrders)
    IN  [shop |-> shop,
         revenue |-> revenueNOK,
         revenueYoY |-> calculateYoY(revenueNOK, yoyRevenueNOK),
         spend |-> spendNOK,
         mer |-> OrZero(current.mer),
         ncPercent |-> OrZero(current.ncPercent),
         orders |-> current.orders,
         aov |-> OrZero(current.aov),
         channels |-> channels]

(***************************************************************************)
(* Comparison formatters (formatting.ts)                                   *)
(*                                                                         *)
(* A formatted comparison is either one of the fixed texts or the template *)
(* `${sign}${change.toFixed(1)}%`, kept as its sign, the '-' that toFixed  *)
(* writes for a negative number and the digits in tenths.  The two texts   *)
(* outside ASCII are written by their code points.                         *)
(***************************************************************************)
EmDash == "<U+2014>"
WarningNeg == "<U+26A0 U+FE0F> neg."

Text(t) == [text |-> t, sign |-> "", negative |-> FALSE, tenths |-> 0]

\* x.toFixed(1): the nearest number of tenths, the larger one of two
RoundTenths(x) == (20 * Abs(x.num) + x.den) \div (2 * x.den)

\* `${sign}${change.toFixed(1)}%`
Percent(sign, change) ==
    [text |-> "%", sign |-> sign, negative |-> change.num < 0,
     tenths |-> RoundTenths(change)]

\* ((current / previous) - 1) * 100
PercentChange(current, previous) ==
    QMul(QSub(QDiv(current, previous), Num(1)), Num(100))

formatChange(current, previous) ==
    IF previous.null THEN Text(EmDash)
    ELSE IF previous.num = 0
    THEN (IF current.num = 0 THEN Text(EmDash) ELSE Text("NEW"))
    ELSE IF previous.num < 0 THEN Text(WarningNeg)
    ELSE LET change == PercentChange(current, previous)
         IN  IF QLess(Num(999), change) \/ QLess(change, Num(-999))
             THEN (IF change.num >= 0 THEN Text(">999%") ELSE Text("<-999%"))
             ELSE Percent(IF change.num >= 0 THEN "+" ELSE "", change)

\* the first formatYoY of formatting.ts
formatYoY_first(current, yoy) ==
    IF yoy.null THEN (IF current.num > 0 THEN Text("NEW") ELSE Text(EmDash))
    ELSE IF yoy.num = 0
    THEN (IF current.num > 0 THEN Text("NEW") ELSE Text(EmDash))
    ELSE IF yoy.num < 0 THEN Text(WarningNeg)
    ELSE LET change == PercentChange(current, yoy)
         IN  IF QLess(Num(999), change) \/ QLess(change, Num(-999))
             THEN (IF change.num >= 0 THEN Text(">999%") ELSE Text("<-999%"))
             ELSE Percent(IF change.num >= 0 THEN "+" ELSE "", change)

\* formatYoY with a missing baseline always shown as the dash
formatYoY_NullDash(current, yoy) ==
    IF yoy.null THEN Text(EmDash)
    ELSE IF yoy.num = 0
    THEN (IF current.num > 0 THEN Text("NEW") ELSE Text(EmDash))
    ELSE IF yoy.num < 0 THEN Text(EmDash)
    ELSE LET change == PercentChange(current, yoy)
         IN  IF QLess(Num(999), change) THEN Text("+999%")
             ELSE IF QLess(change, Num(-999)) THEN Text("-999%")
             ELSE Percent(IF change.num >= 0 THEN "+" ELSE "", change)

\* the second formatYoY of formatting.ts, the one its table formatters call
formatYoY(current, yoy) ==
    IF yoy.null \/ yoy.num = 0
    THEN (IF current.num > 0 THEN Text("NEW") ELSE Text(EmDash))
    ELSE IF yoy.num < 0 THEN Text(EmDash)
    ELSE LET change == PercentChange(current, yoy)
         IN  IF QLess(Num(999), change) THEN Text("+999%")
             ELSE IF QLess(change, Num(-999)) THEN Text("-999%")
             ELSE Percent(IF change.num >= 0 THEN "+" ELSE "", change)

(***************************************************************************)
(* Weighted totals across countries (metrics.ts)                           *)
(***************************************************************************)
\* the first loop: totalRevenue, totalSpend, totalOrders
RECURSIVE SumCountries(_)
SumCountries(countries_) ==
    IF countries_ = <<>>
    THEN [totalRevenue |-> Num(0), totalSpend |-> Num(0), totalOrders |-> 0]
    ELSE LET acc == SumCountries(SubSeq(countries_, 1, Len(countries_) - 1))
             country == countries_[Len(countries_)]
         IN  [totalRevenue |-> QAdd(acc.totalRevenue, country.revenue),
              totalSpend |-> QAdd(acc.totalSpend, country.spend),
              totalOrders |-> acc.totalOrders + country.orders]

\* the weight with 1 in place of 0 when there is no revenue at all
CountryWeight_OneWithoutRevenue(country, totalRevenue) ==
    IF totalRevenue.num > 0 THEN QDiv(country.revenue, totalRevenue) ELSE Num(1)

\* totalRevenue > 0 ? country.revenue / totalRevenue : 0
CountryWeight(country, totalRevenue) ==
    IF totalRevenue.num > 0 THEN QDiv(country.revenue, totalRevenue) ELSE Num(0)

\* the second loop: the four weighted sums
RECURSIVE WeightedSums(_, _)
WeightedSums(countries_, totalRevenue) ==
    IF countries_ = <<>>
    THEN [weightedROASSum |-> Num(0), weightedNCROASSum |-> Num(0),
          weightedNCPercentSum |-> Num(0), weightedAOVSum |-> Num(0)]
    ELSE LET acc == WeightedSums(SubSeq(countries_, 1, Len(countries_) - 1),
                                 totalRevenue)
             country == countries_[Len(countries_)]
             weight == CountryWeight(country, totalRevenue)
         IN  [weightedROASSum |-> QAdd(acc.weightedROASSum, QMul(country.roas, weight)),
              weightedNCROASSum |->
                  QAdd(acc.weightedNCROASSum, QMul(country.ncRoas, weight)),
              weightedNCPercentSum |->
                  QAdd(acc.weightedNCPercentSum, QMul(country.ncPercent, weight)),
              weightedAOVSum |-> QAdd(acc.weightedAOVSum, QMul(country.aov, weight))]

\* calculateWeightedTotals with the ratios weighted by spend instead of revenue
calculateWeightedTotals_BySpend(countries_) ==
    LET totals == SumCountries(countries_)
        bySpend == [i \in 1..Len(countries_) |->
                       [countries_[i] EXCEPT !.revenue = countries_[i].spend]]
        sums == WeightedSums(bySpend, totals.totalSpend)
    IN  [totalRevenue |-> totals.totalRevenue,
         totalSpend |-> totals.totalSpend,
         weightedROAS |-> sums.weightedROASSum,
         weightedNCROAS |-> sums.weightedNCROASSum,
         weightedNCPercent |-> sums.weightedNCPercentSum,
         weightedAOV |-> sums.weightedAOVSum,
         totalOrders |-> totals.totalOrders]

calculateWeightedTotals(countries_) ==
    LET totals == SumCountries(countries_)
        sums == WeightedSums(countries_, totals.totalRevenue)
    IN  [totalRevenue |-> totals.totalRevenue,
         totalSpend |-> totals.totalSpend,
         weightedROAS |-> sums.weightedROASSum,
         weightedNCROAS |-> sums.weightedNCROASSum,
         weightedNCPercent |-> sums.weightedNCPercentSum,
         weightedAOV |-> sums.weightedAOVSum,
         totalOrders |-> totals.totalOrders]

(***************************************************************************)
(* VAT correction (data.ts)                                                *)
(***************************************************************************)
\* the loop body: day.orderRevenue /= vatDivisor; ...
CorrectDay(day, vatDivisor) ==
    [day EXCEPT
        !.orderRevenue = QDiv(Num(@), vatDivisor),
        !.metaPixelRevenue = QDiv(Num(@), vatDivisor),
        !.metaChannelRevenue = QDiv(Num(@), vatDivisor),
        !.metaPixelNcRevenue = QDiv(Num(@), vatDivisor),
        !.googlePixelRevenue = QDiv(Num(@), vatDivisor),
        !.googleChannelRevenue = QDiv(Num(@), vatDivisor),
        !.googlePixelNcRevenue = QDiv(Num(@), vatDivisor),
        !.tiktokPixelRevenue = QDiv(Num(@), vatDivisor),
        !.tiktokChannelRevenue = QDiv(Num(@), vatDivisor),
        !.tiktokPixelNcRevenue = QDiv(Num(@), vatDivisor)]

\* the turn with the rate itself as the divisor
CorrectShop_DivideByRate(allData_, shop) ==
    LET vatDivisor == shop.vatRate
    IN  IF vatDivisor = Num(1) THEN allData_
        ELSE IF shop.code \notin DOMAIN allData_ THEN allData_
        ELSE [allData_ EXCEPT
                 ![shop.code] = [i \in 1..Len(@) |-> CorrectDay(@[i], vatDivisor)]]

\* one turn of the loop over SHOPS
CorrectShop(allData_, shop) ==
    LET vatDivisor == QAdd(Num(1), shop.vatRate)
    IN  IF vatDivisor = Num(1) THEN allData_
        ELSE IF shop.code \notin DOMAIN allData_ THEN allData_
        ELSE [allData_ EXCEPT
                 ![shop.code] = [i \in 1..Len(@) |-> CorrectDay(@[i], vatDivisor)]]

\* the map after the turns of the first n shops
RECURSIVE CorrectShops(_, _)
CorrectShops(allData_, n) ==
    IF n = 0 THEN allData_
    ELSE CorrectShop(CorrectShops(allData_, n - 1), SHOPS[n])

applyVatCorrection(allData_) == CorrectShops(allData_, Len(SHOPS))

(***************************************************************************)
(* State machine of the aggregation: the sheet reader appends the parsed   *)
(* rows of one shop to dailyMetrics, aggregatePeriodMetrics reduces them.  *)
(***************************************************************************)
OrderCounts == {<<0, 0>>, <<1, 0>>, <<2, 1>>}
RevenueValues == {0, 125}
SpendValues == {0, 10}
Channels == {"Meta", "Google", "TikTok"}

\* the four columns of channel ch in a row where channel active carries
\* revenue, and spend only if paid
ChannelColumns(ch, active, paid, spendAmt, pixel, channel, nc) ==
    IF ch = active
    THEN [spend |-> IF paid THEN spendAmt ELSE 0,
          pixel |-> pixel, channel |-> channel, nc |-> nc]
    ELSE [spend |-> 0, pixel |-> 0, channel |-> 0, nc |-> 0]

\* results.push({ date, orderRevenue, spend, ... })
DayRecord(date, oc, revenue, spend, active, paid) ==
    LET meta == ChannelColumns("Meta", active, paid, 3, 50, 70, 20)
        google == ChannelColumns("Google", active, paid, 4, 60, 80, 30)
        tiktok == ChannelColumns("TikTok", active, paid, 6, 65, 85, 35)
    IN  [date |-> formatLocalDate(date),
         orderRevenue |-> revenue,
         spend |-> spend,
         orders |-> oc[1],
         newCustomerOrders |-> oc[2],
         metaSpend |-> meta.spend,
         metaPixelRevenue |-> meta.pixel,
         metaChannelRevenue |-> meta.channel,
         metaPixelNcRevenue |-> meta.nc,
         googleSpend |-> google.spend,
         googlePixelRevenue |-> google.pixel,
         googleChannelRevenue |-> google.channel,
         googlePixelNcRevenue |-> google.nc,
         tiktokSpend |-> tiktok.spend,
         tiktokPixelRevenue |-> tiktok.pixel,
         tiktokChannelRevenue |-> tiktok.channel,
         tiktokPixelNcRevenue |-> tiktok.nc]

AggInit ==
    /\ now = FirstDay
    /\ fn = "idle"
    /\ args = NoArgs
    /\ ret = NoRet
    /\ dailyMetrics = <<>>
    /\ metrics = NoMetrics
    /\ allData = NoData
    /\ countries = <<>>

\* one more row of the sheet is parsed and pushed
LoadDay ==
    /\ Idle
    /\ Len(dailyMetrics) < MaxDays
    /\ \E oc \in OrderCounts, revenue \in RevenueValues, spend \in SpendValues,
          active \in Channels \cup {"none"}, paid \in BOOLEAN :
            /\ active = "none" => ~paid
            /\ dailyMetrics' =
                   Append(dailyMetrics,
                          DayRecord(now + Len(dailyMetrics), oc, revenue, spend,
                                    active, paid))
    /\ UNCHANGED <<now, fn, args, ret, metrics, allData, countries>>

CallAggregatePeriodMetrics ==
    /\ Idle
    /\ fn' = "aggregatePeriodMetrics"
    /\ metrics' = aggregatePeriodMetrics(dailyMetrics)
    /\ UNCHANGED <<now, args, ret, dailyMetrics, allData, countries>>

ReturnMetrics ==
    /\ fn = "aggregatePeriodMetrics"
    /\ fn' = "idle"
    /\ metrics' = NoMetrics
    /\ UNCHANGED <<now, args, ret, dailyMetrics, allData, countries>>

\* the channels of the aggregated period are listed
CallGetChannelMetrics ==
    /\ fn = "aggregatePeriodMetrics"
    /\ \E includeNcOrders \in BOOLEAN :
          /\ fn' = "getChannelMetrics"
          /\ args' = [includeNcOrders |-> includeNcOrders]
          /\ ret' = getChannelMetrics(metrics, includeNcOrders)
    /\ UNCHANGED <<now, dailyMetrics, metrics, allData, countries>>

ChannelSpendValues == {-3, 0, 3}
ChannelRevenueValues == {0, 50}

\* the ratios of one channel, on amounts of the caller's own
CallCalculateChannelROAS ==
    /\ dailyMetrics = <<>>
    /\ \E spend \in ChannelSpendValues,
          pixelRevenue, channelRevenue, ncRevenue \in ChannelRevenueValues :
            Call("calculateChannelROAS",
                 [spend |-> spend, pixelRevenue |-> pixelRevenue,
                  channelRevenue |-> channelRevenue, ncRevenue |-> ncRevenue],
                 calculateChannelROAS(spend, pixelRevenue, channelRevenue, ncRevenue))

ReturnChannels ==
    /\ fn \in {"getChannelMetrics", "calculateChannelROAS"}
    /\ fn' = "idle"
    /\ args' = NoArgs
    /\ ret' = NoRet
    /\ metrics' = NoMetrics
    /\ UNCHANGED <<now, dailyMetrics, allData, countries>>

AggNext ==
    \/ LoadDay
    \/ CallAggregatePeriodMetrics
    \/ ReturnMetrics
    \/ CallGetChannelMetrics
    \/ CallCalculateChannelROAS
    \/ ReturnChannels

SpecAgg == AggInit /\ [][AggNext]_vars

(***************************************************************************)
(* State machine of the country metrics: the rows of one shop are loaded,  *)
(* the rows of the period and of the period a year before are picked by    *)
(* date, and getCountryMetrics reduces both.                               *)
(***************************************************************************)
CountryOrderCounts == {<<0, 0>>, <<2, 1>>}
\* <<orderRevenue, spend, channel carrying revenue, whether it was paid for>>
CountryAmounts ==
    {<<0, 0, "none", FALSE>>, <<125, 0, "Google", FALSE>>,
     <<125, 10, "Meta", TRUE>>, <<125, 10, "none", FALSE>>}

\* one more row of the shop's sheet is parsed and pushed
LoadCountryDay ==
    /\ Idle
    /\ Len(dailyMetrics) < MaxDays
    /\ \E oc \in CountryOrderCounts, amounts \in CountryAmounts :
            dailyMetrics' =
                Append(dailyMetrics,
                       DayRecord(now + Len(dailyMetrics), oc, amounts[1], amounts[2],
                                 amounts[3], amounts[4]))
    /\ UNCHANGED <<now, fn, args, ret, metrics, allData, countries>>

\* the arguments of a call that takes the first k rows as last year's period
\* and the rest as the current one
CountryArgs(s, k, includeNcOrders) ==
    [shop |-> SHOPS[s],
     startDate |-> formatLocalDate(now + k),
     endDate |-> formatLocalDate(now + Len(dailyMetrics) - 1),
     yoyStartDate |-> formatLocalDate(now),
     yoyEndDate |-> formatLocalDate(now + k - 1),
     includeNcOrders |-> includeNcOrders]

CallGetCountryMetrics ==
    \E s \in 1..Len(SHOPS), k \in 0..Len(dailyMetrics), includeNcOrders \in BOOLEAN :
        LET a == CountryArgs(s, k, includeNcOrders)
            currentData == getMetricsForPeriod(dailyMetrics, a.startDate, a.endDate)
            yoyData == getMetricsForPeriod(dailyMetrics, a.yoyStartDate, a.yoyEndDate)
        IN  Call("getCountryMetrics", a,
                 getCountryMetrics(a.shop, currentData, yoyData, includeNcOrders))

CallGetCountryMetrics_typesTs ==
    \E s \in 1..Len(SHOPS), k \in 0..Len(dailyMetrics), includeNcOrders \in BOOLEAN :
        LET a == CountryArgs(s, k, includeNcOrders)
            currentData == getMetricsForPeriod(dailyMetrics, a.startDate, a.endDate)
            yoyData == getMetricsForPeriod(dailyMetrics, a.yoyStartDate, a.yoyEndDate)
        IN  Call("getCountryMetrics_typesTs", a,
                 getCountryMetrics_typesTs(a.shop, currentData, yoyData, includeNcOrders))

CountryNext ==
    \/ LoadCountryDay
    \/ CallGetCountryMetrics
    \/ CallGetCountryMetrics_typesTs
    \/ Return

SpecCountry == AggInit /\ [][CountryNext]_vars

(***************************************************************************)
(* State machine of the comparisons: a table formatter or a metrics        *)
(* builder hands a current value and a baseline to one of the functions.   *)
(***************************************************************************)
CurrentValues == {Num(n) : n \in {-100, -5, 0, 1, 50, 100, 149, 100000}}
BaselineValues == {Null} \cup {Num(n) : n \in {-5, 0, 1, 3, 100}}

CallFormatChange ==
    \E current \in CurrentValues, previous \in BaselineValues :
        Call("formatChange", [current |-> current, previous |-> previous],
             formatChange(current, previous))

CallFormatYoY_first ==
    \E current \in CurrentValues, yoy \in BaselineValues :
        Call("formatYoY_first", [current |-> current, yoy |-> yoy],
             formatYoY_first(current, yoy))

CallFormatYoY ==
    \E current \in CurrentValues, yoy \in BaselineValues :
        Call("formatYoY", [current |-> current, yoy |-> yoy],
             formatYoY(current, yoy))

\* previous is a number: the parameter is not nullable
CallCalculateYoY ==
    \E current \in CurrentValues, previous \in BaselineValues \ {Null} :
        Call("calculateYoY", [current |-> current, previous |-> previous],
             calculateYoY(current, previous))

YoYNext ==
    \/ CallFormatChange
    \/ CallFormatYoY_first
    \/ CallFormatYoY
    \/ CallCalculateYoY
    \/ Return

SpecYoY == AggInit /\ [][YoYNext]_vars

(***************************************************************************)
(* State machine of the totals: getAllCountryMetrics collects the metrics  *)
(* of the countries with spend, ordered by revenue from the largest, and   *)
(* calculateWeightedTotals combines them.                                  *)
(***************************************************************************)
MaxCountries == 4

\* the metrics of one country with spend, in NOK
CountryMetricsValues ==
    { [revenue |-> Num(100), spend |-> Num(10), roas |-> Num(10), ncRoas |-> Num(4),
       ncPercent |-> Num(50), orders |-> 2, aov |-> Num(50)],
      [revenue |-> Num(300), spend |-> Num(150), roas |-> Num(2), ncRoas |-> Div(1, 2),
       ncPercent |-> Num(25), orders |-> 4, aov |-> Num(75)],
      [revenue |-> Num(0), spend |-> Num(10), roas |-> Num(0), ncRoas |-> Num(4),
       ncPercent |-> Num(50), orders |-> 2, aov |-> Num(0)],
      [revenue |-> Num(102), spend |-> Div(51, 5), roas |-> Num(10), ncRoas |-> Num(4),
       ncPercent |-> Num(0), orders |-> 3, aov |-> Num(34)] }

\* metrics.push(...) followed by the sort on revenue, descending
PushCountry ==
    /\ Idle
    /\ Len(countries) < MaxCountries
    /\ \E country \in CountryMetricsValues :
          /\ countries # <<>> =>
                ~QLess(countries[Len(countries)].revenue, country.revenue)
          /\ countries' = Append(countries, country)
    /\ UNCHANGED <<now, fn, args, ret, dailyMetrics, metrics, allData>>

CallCalculateWeightedTotals ==
    Call("calculateWeightedTotals", [countries |-> countries],
         calculateWeightedTotals(countries))

WeightedNext ==
    \/ PushCountry
    \/ CallCalculateWeightedTotals
    \/ Return

SpecWeighted == AggInit /\ [][WeightedNext]_vars

(***************************************************************************)
(* State machine of the data loading: the rows of the shops are read into  *)
(* the map, applyVatCorrection rewrites them in place, and the map is      *)
(* returned to the report.                                                 *)
(***************************************************************************)
MaxRows == 2

\* <<orders, newCustomerOrders, orderRevenue, spend, channel, paid>>
VatRows ==
    {<<0, 0, 0, 0, "none", FALSE>>, <<2, 1, 125, 10, "Meta", TRUE>>,
     <<2, 1, 125, 0, "Google", FALSE>>, <<1, 0, 125, 10, "TikTok", TRUE>>}

\* the number of rows the first n shops have in the map
RECURSIVE RowsOfShops(_, _)
RowsOfShops(allData_, n) ==
    IF n = 0 THEN 0
    ELSE RowsOfShops(allData_, n - 1)
         + (IF SHOPS[n].code \in DOMAIN allData_ THEN Len(allData_[SHOPS[n].code]) ELSE 0)

RowCount(allData_) == RowsOfShops(allData_, Len(SHOPS))

\* one more row of a shop's sheet is parsed, pushed and set in the map
LoadShopRow ==
    /\ Idle
    /\ RowCount(allData) < MaxRows
    /\ \E s \in 1..Len(SHOPS), row \in VatRows :
          LET code == SHOPS[s].code
              rows == IF code \in DOMAIN allData THEN allData[code] ELSE <<>>
              day == DayRecord(now + Len(rows), <<row[1], row[2]>>, row[3], row[4],
                               row[5], row[6])
          IN  allData' = [c \in DOMAIN allData \cup {code} |->
                             IF c = code THEN Append(rows, day) ELSE allData[c]]
    /\ UNCHANGED <<now, fn, args, ret, dailyMetrics, metrics, countries>>

\* applyVatCorrection(allData): the argument is rewritten in place; args
\* keeps the map as it was handed over
CallApplyVatCorrection ==
    /\ Idle
    /\ fn' = "applyVatCorrection"
    /\ args' = [allData |-> allData]
    /\ allData' = applyVatCorrection(allData)
    /\ UNCHANGED <<now, ret, dailyMetrics, metrics, countries>>

\* return allData
ReturnAllData ==
    /\ fn = "applyVatCorrection"
    /\ fn' = "loadAllMarketingData"
    /\ args' = NoArgs
    /\ ret' = allData
    /\ UNCHANGED <<now, dailyMetrics, metrics, allData, countries>>

VatNext ==
    \/ LoadShopRow
    \/ CallApplyVatCorrection
    \/ ReturnAllData

SpecVat == AggInit /\ [][VatNext]_vars

(***************************************************************************)
(* State machine of the period filter: the rows of a sheet come in the     *)
(* order of the sheet, whatever their dates, and a caller picks the rows   *)
(* of a period.                                                            *)
(***************************************************************************)
\* the dates of the rows, in days from 'now'; they straddle a year's end
RowDateOffsets == {-1, 0, 1}
\* the dates a period can start or end on
PeriodDateOffsets == {-2, -1, 0, 1, 2}

\* one more row of the sheet is parsed and pushed, dated as the sheet says
LoadDatedDay ==
    /\ Idle
    /\ Len(dailyMetrics) < MaxDays
    /\ \E offset \in RowDateOffsets, revenue \in RevenueValues :
          dailyMetrics' =
              Append(dailyMetrics,
                     DayRecord(now + offset, <<1, 0>>, revenue, 0, "none", FALSE))
    /\ UNCHANGED <<now, fn, args, ret, metrics, allData, countries>>

CallGetMetricsForPeriod ==
    \E a, b \in PeriodDateOffsets :
        /\ a <= b
        /\ Call("getMetricsForPeriod",
                [allData |-> dailyMetrics,
                 startDate |-> formatLocalDate(now + a),
                 endDate |-> formatLocalDate(now + b)],
                getMetricsForPeriod(dailyMetrics, formatLocalDate(now + a),
                                    formatLocalDate(now + b)))

FilterNext ==
    \/ LoadDatedDay
    \/ CallGetMetricsForPeriod
    \/ Return

SpecFilter == AggInit /\ [][FilterNext]_vars

(***************************************************************************)
(* Countries with and without spend, and the table of countries (data.ts)  *)
(***************************************************************************)
\* SHOPS.map(s => s.code)
ShopCodes == [i \in 1..Len(SHOPS) |-> SHOPS[i].code]

\* periodData.reduce((sum, day) => sum + day.spend, 0)
RECURSIVE TotalSpend(_)
TotalSpend(periodData) ==
    IF periodData = <<>> THEN 0
    ELSE periodData[1].spend + TotalSpend(Tail(periodData))

\* filterCountriesWithSpend that keeps the countries without spend as well
filterCountriesWithSpend_ZeroSpend(allData_, startDate, endDate) ==
    LET withSpend[n \in 0..Len(SHOPS)] ==
            IF n = 0 THEN <<>>
            ELSE LET shopCode == SHOPS[n].code
                 IN  IF shopCode \notin DOMAIN allData_ THEN withSpend[n - 1]
                     ELSE LET periodData == getMetricsForPeriod(allData_[shopCode],
                                                                startDate, endDate)
                              totalSpend == TotalSpend(periodData)
                          IN  IF totalSpend >= 0
                              THEN Append(withSpend[n - 1], shopCode)
                              ELSE withSpend[n - 1]
    IN  withSpend[Len(SHOPS)]

\* for (const [shopCode, data] of allData): the keys come in the order they
\* were set, which is the order of SHOPS
filterCountriesWithSpend(allData_, startDate, endDate) ==
    LET withSpend[n \in 0..Len(SHOPS)] ==
            IF n = 0 THEN <<>>
            ELSE LET shopCode == SHOPS[n].code
                 IN  IF shopCode \notin DOMAIN allData_ THEN withSpend[n - 1]
                     ELSE LET periodData == getMetricsForPeriod(allData_[shopCode],
                                                                startDate, endDate)
                              totalSpend == TotalSpend(periodData)
                          IN  IF totalSpend > 0
                              THEN Append(withSpend[n - 1], shopCode)
                              ELSE withSpend[n - 1]
    IN  withSpend[Len(SHOPS)]

\* countriesWithSpend.includes(code)
Includes(list, x) == \E i \in 1..Len(list) : list[i] = x

getCountriesWithoutSpend(allData_, startDate, endDate) ==
    LET countriesWithSpend == filterCountriesWithSpend(allData_, startDate, endDate)
        allCountries == ShopCodes
        NotIncluded(code) == ~Includes(countriesWithSpend, code)
    IN  SelectSeq(allCountries, NotIncluded)

\* metrics.sort((a, b) => b.revenue - a.revenue): the sort is stable
SortByRevenueDescending(metrics_) ==
    LET sorted[n \in 0..Len(metrics_)] ==
            IF n = 0 THEN <<>>
            ELSE LET before == sorted[n - 1]
                     m == metrics_[n]
                     k == Cardinality({i \in 1..Len(before) :
                                          ~QLess(before[i].revenue, m.revenue)})
                 IN  SubSeq(before, 1, k) \o <<m>> \o SubSeq(before, k + 1, Len(before))
    IN  sorted[Len(metrics_)]

getAllCountryMetrics(allData_, startDate, endDate, yoyStartDate, yoyEndDate, includeNcOrders) ==
    LET countriesWithSpend == filterCountriesWithSpend(allData_, startDate, endDate)
        pushed[n \in 0..Len(countriesWithSpend)] ==
            IF n = 0 THEN <<>>
            ELSE LET shopCode == countriesWithSpend[n]
                     found == {i \in 1..Len(SHOPS) : SHOPS[i].code = shopCode}
                 IN  IF found = {} \/ shopCode \notin DOMAIN allData_
                     THEN pushed[n - 1]
                     ELSE LET shop == SHOPS[CHOOSE i \in found : \A j \in found : i <= j]
                              data == allData_[shopCode]
                              currentData == getMetricsForPeriod(data, startDate, endDate)
                              yoyData == getMetricsForPeriod(data, yoyStartDate, yoyEndDate)
                          IN  Append(pushed[n - 1],
                                     getCountryMetrics(shop, currentData, yoyData,
                                                       includeNcOrders))
    IN  SortByRevenueDescending(pushed[Len(countriesWithSpend)])

(***************************************************************************)
(* State machine of one report: the sheets are read, the loader returns    *)
(* the map, the table of countries is computed and then the list of the    *)
(* countries without spend, for the same period.                           *)
(***************************************************************************)
\* the first and the last day of a reported period, in days from 'now'
ReportDateOffsets == {0, 1}

\* dataMap.set(code, results[i]) for every shop code
loadAllShopData(results) ==
    [code \in {ShopCodes[i] : i \in 1..Len(ShopCodes)} |->
        IF code \in DOMAIN results THEN results[code] ELSE <<>>]

\* loadAllMarketingData of data.ts: the map is returned as it was loaded;
\* args keeps the rows that were read for the shops
CallLoadAllMarketingData ==
    /\ Idle
    /\ fn' = "loadAllMarketingData"
    /\ args' = [shopCodes |-> ShopCodes, results |-> allData]
    /\ allData' = loadAllShopData(allData)
    /\ ret' = allData'
    /\ UNCHANGED <<now, dailyMetrics, metrics, countries>>

\* const countries = getAllCountryMetrics(allData, ...)
CallGetAllCountryMetrics ==
    /\ fn = "loadAllMarketingData"
    /\ \E a, b \in ReportDateOffsets, includeNcOrders \in BOOLEAN :
          /\ a <= b
          /\ LET startDate == formatLocalDate(now + a)
                 endDate == formatLocalDate(now + b)
                 yoyStartDate == getSameDayLastYear(now + a).start
                 yoyEndDate == getSameDayLastYear(now + b).end
             IN  /\ args' = [allData |-> allData,
                             startDate |-> startDate,
                             endDate |-> endDate,
                             yoyStartDate |-> yoyStartDate,
                             yoyEndDate |-> yoyEndDate,
                             includeNcOrders |-> includeNcOrders]
                 /\ ret' = getAllCountryMetrics(allData, startDate, endDate,
                                                yoyStartDate, yoyEndDate,
                                                includeNcOrders)
    /\ fn' = "getAllCountryMetrics"
    /\ countries' = ret'
    /\ UNCHANGED <<now, dailyMetrics, metrics, allData>>

\* const noSpendCountries = getCountriesWithoutSpend(allData, start, end)
CallGetCountriesWithoutSpend ==
    /\ fn = "getAllCountryMetrics"
    /\ fn' = "getCountriesWithoutSpend"
    /\ args' = [allData |-> allData,
                startDate |-> args.startDate,
                endDate |-> args.endDate]
    /\ ret' = getCountriesWithoutSpend(allData, args.startDate, args.endDate)
    /\ UNCHANGED <<now, dailyMetrics, metrics, allData, countries>>

ReportNext ==
    \/ LoadShopRow
    \/ CallLoadAllMarketingData
    \/ CallGetAllCountryMetrics
    \/ CallGetCountriesWithoutSpend

SpecReport == AggInit /\ [][ReportNext]_vars

(***************************************************************************)
(* The cron handler (index.ts)                                             *)
(***************************************************************************)
\* scheduled that sends the daily report on Mondays as well
scheduled_DailyOnMonday(dayOfWeek, dayOfMonth, hour) ==
    (IF dayOfWeek >= 1 /\ dayOfWeek <= 5 /\ hour = 7 THEN <<"daily">> ELSE <<>>)
    \o (IF dayOfWeek = 1 /\ hour = 7 THEN <<"weekly">> ELSE <<>>)
    \o (IF dayOfMonth = 1 /\ hour = 8 THEN <<"monthly">> ELSE <<>>)

\* the reports that one trigger sends, in the order they are sent
scheduled(dayOfWeek, dayOfMonth, hour) ==
    (IF dayOfWeek >= 2 /\ dayOfWeek <= 5 /\ hour = 7 THEN <<"daily">> ELSE <<>>)
    \o (IF dayOfWeek = 1 /\ hour = 7 THEN <<"weekly">> ELSE <<>>)
    \o (IF dayOfMonth = 1 /\ hour = 8 THEN <<"monthly">> ELSE <<>>)

\* now.getUTCHours()
Hours == 0..23

\* the number of days after the first one on which a trigger can come
MaxTriggerDays == 400

\* the worker starts on some day
CronInit ==
    /\ now \in FirstDay..(FirstDay + MaxTriggerDays)
    /\ fn = "idle"
    /\ args = NoArgs
    /\ ret = NoRet
    /\ dailyMetrics = <<>>
    /\ metrics = NoMetrics
    /\ allData = NoData
    /\ countries = <<>>

\* a trigger at some hour of the day 'now'; the worker's local time is UTC
CallScheduled ==
    \E hour \in Hours :
        Call("scheduled", [now |-> now, hour |-> hour],
             scheduled(WeekDay(now), DateFromTime(now), hour))

CronNext ==
    \/ CallScheduled
    \/ Return

SpecCron == CronInit /\ [][CronNext]_vars

(***************************************************************************)
(* The get_marketing_data tool (mcp/tools.ts).  The arguments of a tool    *)
(* call come from a client: a string is a sequence of characters here, so  *)
(* that the pattern test, the comparison and the parsing of the dates are  *)
(* computed on what was sent.                                              *)
(***************************************************************************)
ALL_SHOP_CODES == <<"NO", "SE", "DK", "FI", "UK", "DE", "NL", "COM">>

\* an argument that was not sent
Undefined == <<"undefined">>

DigitChars == <<"0", "1", "2", "3", "4", "5", "6", "7", "8", "9">>
IsDigit(c) == \E d \in 1..10 : DigitChars[d] = c
DigitValue(c) == (CHOOSE d \in 1..10 : DigitChars[d] = c) - 1

\* the code unit of a character of a date argument
CharCode(c) ==
    IF IsDigit(c) THEN 48 + DigitValue(c)
    ELSE IF c = "-" THEN 45
    ELSE IF c = "/" THEN 47
    ELSE 0

\* the characters of a 'YYYY-MM-DD' string
Chars(str) ==
    LET D(n) == DigitChars[(n % 10) + 1]
    IN  <<D(str.year \div 1000), D(str.year \div 100), D(str.year \div 10), D(str.year),
          "-", D(str.month \div 10), D(str.month),
          "-", D(str.day \div 10), D(str.day)>>

\* /^\d{4}-\d{2}-\d{2}$/.test(s)
MatchesDatePattern(s) ==
    /\ Len(s) = 10
    /\ \A i \in 1..10 : IF i \in {5, 8} THEN s[i] = "-" ELSE IsDigit(s[i])

\* a > b on strings: the first position where they differ decides, and a
\* proper prefix is the smaller one
StrGreater(a, b) ==
    LET common == IF Len(a) < Len(b) THEN Len(a) ELSE Len(b)
        differ == {i \in 1..common : a[i] # b[i]}
    IN  IF differ = {} THEN Len(a) > Len(b)
        ELSE LET i == CHOOSE k \in differ : \A j \in differ : k <= j
             IN  CharCode(a[i]) > CharCode(b[i])

\* new Date(s).getTime() / 86400000 of a string that matches the pattern:
\* a date-only string is UTC midnight, and NaN when the month or the day is
\* out of range
DateOfIsoString(s) ==
    LET N(i) == DigitValue(s[i])
        year == N(1) * 1000 + N(2) * 100 + N(3) * 10 + N(4)
        month == N(6) * 10 + N(7)
        day == N(9) * 10 + N(10)
    IN  IF month \in 1..12 /\ day \in 1..31
        THEN [nan |-> FALSE, day |-> MakeDay(year, month - 1, day)]
        ELSE [nan |-> TRUE, day |-> 0]

\* the longest range of days of one request
MaxDaySpan == 400

ErrorResult(text) == [isError |-> TRUE, text |-> text, loaded |-> FALSE]

\* handleGetMarketingData with the range check on the days between the
\* dates, without the last one
handleGetMarketingData_SpanExclusive(args_, loadOk) ==
    LET startDate == args_.start_date
        endDate == args_.end_date
        shops == IF args_.shops = Undefined THEN ALL_SHOP_CODES ELSE args_.shops
    IN  IF startDate = Undefined \/ startDate = <<>> \/ endDate = Undefined \/ endDate = <<>>
        THEN ErrorResult("start_date and end_date are required")
        ELSE IF ~MatchesDatePattern(startDate) \/ ~MatchesDatePattern(endDate)
        THEN ErrorResult("dates must be YYYY-MM-DD format")
        ELSE IF StrGreater(startDate, endDate)
        THEN ErrorResult("start_date must be before or equal to end_date")
        ELSE LET s == DateOfIsoString(startDate)
                 e == DateOfIsoString(endDate)
                 nan == s.nan \/ e.nan
                 daySpan == e.day - s.day
                 invalidShops == SelectSeq(shops, LAMBDA c : ~Includes(ALL_SHOP_CODES, c))
             IN  IF ~nan /\ daySpan > MaxDaySpan
                 THEN ErrorResult("max 400 days per request")
                 ELSE IF Len(invalidShops) > 0
                 THEN ErrorResult("invalid shop codes")
                 ELSE IF loadOk
                 THEN [isError |-> FALSE, text |-> "response", loaded |-> TRUE]
                 ELSE [isError |-> TRUE, text |-> "Error fetching data", loaded |-> TRUE]

\* loadOk: whether the sheets could be read; 'loaded' tells that the handler
\* got as far as the credentials and loadAllShopData
handleGetMarketingData(args_, loadOk) ==
    LET startDate == args_.start_date
        endDate == args_.end_date
        shops == IF args_.shops = Undefined THEN ALL_SHOP_CODES ELSE args_.shops
    IN  IF startDate = Undefined \/ startDate = <<>> \/ endDate = Undefined \/ endDate = <<>>
        THEN ErrorResult("start_date and end_date are required")
        ELSE IF ~MatchesDatePattern(startDate) \/ ~MatchesDatePattern(endDate)
        THEN ErrorResult("dates must be YYYY-MM-DD format")
        ELSE IF StrGreater(startDate, endDate)
        THEN ErrorResult("start_date must be before or equal to end_date")
        ELSE LET s == DateOfIsoString(startDate)
                 e == DateOfIsoString(endDate)
                 nan == s.nan \/ e.nan
                 daySpan == e.day - s.day + 1
                 invalidShops == SelectSeq(shops, LAMBDA c : ~Includes(ALL_SHOP_CODES, c))
             IN  IF ~nan /\ daySpan > MaxDaySpan
                 THEN ErrorResult("max 400 days per request")
                 ELSE IF Len(invalidShops) > 0
                 THEN ErrorResult("invalid shop codes")
                 ELSE IF loadOk
                 THEN [isError |-> FALSE, text |-> "response", loaded |-> TRUE]
                 ELSE [isError |-> TRUE, text |-> "Error fetching data", loaded |-> TRUE]

\* the days, counted from 'now', of the well-formed date arguments
DateArgOffsets == {0, 1, MaxDaySpan - 1, MaxDaySpan}

\* the date arguments a client sends: dates, nothing, the empty string,
\* a date without padding, a date with slashes, a date in another order and
\* a string of the right form that names no day
DateArgs ==
    {Chars(formatLocalDate(now + k)) : k \in DateArgOffsets}
    \cup {Undefined, <<>>,
          <<"2", "0", "2", "1", "-", "1", "-", "0", "1">>,
          <<"2", "0", "2", "1", "/", "0", "1", "/", "0", "1">>,
          <<"0", "1", "-", "0", "1", "-", "2", "0", "2", "1">>,
          <<"2", "0", "2", "1", "-", "1", "3", "-", "0", "1">>}

ShopArgs ==
    {Undefined, <<>>, <<"NO">>, <<"no">>, <<"UK", "COM">>, <<"NO", "XX">>,
     ALL_SHOP_CODES}

CallHandleGetMarketingData ==
    \E start_date, end_date \in DateArgs, shops \in ShopArgs, loadOk \in BOOLEAN :
        LET a == [start_date |-> start_date, end_date |-> end_date, shops |-> shops]
        IN  Call("get_marketing_data", a, handleGetMarketingData(a, loadOk))

ToolNext ==
    \/ CallHandleGetMarketingData
    \/ Return

SpecTool == AggInit /\ [][ToolNext]_vars

(***************************************************************************)
(* The messages of the weekly and the monthly report (report.ts).  A block *)
(* has its Slack type, what it shows, and the parts of its text that       *)
(* depend on the data.                                                     *)
(***************************************************************************)
header(text) == [type |-> "header", text |-> text, parts |-> <<>>]
section(text, parts) == [type |-> "section", text |-> text, parts |-> parts]
context(text, parts) == [type |-> "context", text |-> text, parts |-> parts]
codeBlock(content, parts) == [type |-> "rich_text", text |-> content, parts |-> parts]

\* the number of greetings in WEEKLY_MESSAGES and in MONTHLY_MESSAGES
GreetingCount == 4

\* the section and the table of every country that has channels
ChannelTables(countries_) ==
    LET tables[n \in 0..Len(countries_)] ==
            IF n = 0 THEN <<>>
            ELSE IF Len(countries_[n].channels) > 0
                 THEN tables[n - 1]
                      \o <<section("CHANNELS", <<countries_[n].shop.code>>),
                           codeBlock("formatChannelTable", countries_[n].channels)>>
                 ELSE tables[n - 1]
    IN  tables[Len(countries_)]

\* footerParts.join(' ') of the weekly report
WeeklyFooter(data) ==
    context("footer",
            (IF data.pixelDataIncomplete THEN <<"Pixel data may update">> ELSE <<>>)
            \o <<"Revenue figures include VAT">>
            \o (IF Len(data.noSpendCountries) > 0
                THEN <<"No spend">> \o data.noSpendCountries ELSE <<>>))

\* the main part of the weekly report
WeeklyBlocks(data, greeting) ==
    <<header("WEEKLY MARKETING REPORT"),
      context("Week", <<>>),
      section("WEEKLY_MESSAGES", <<DigitChars[greeting + 1]>>),
      section("MAIN METRICS", <<>>),
      codeBlock("formatMainTable", <<>>)>>
    \o (IF Len(data.trend) > 0
        THEN <<section("3-WEEK TREND", <<>>), codeBlock("formatTrendTable", data.trend)>>
        ELSE <<>>)
    \o ChannelTables(data.countries)

\* generateWeeklyReport that closes the first message as well when there is
\* a month to date
generateWeeklyReport_FooterInBoth(data, greeting) ==
    LET blocks == WeeklyBlocks(data, greeting)
        closing == <<context("OUTRO", <<>>), WeeklyFooter(data)>>
    IN  IF data.mtd.present
        THEN <<blocks \o closing,
               <<section("MONTH TO DATE", <<>>), codeBlock("formatMainTable", <<"mtd">>)>>
               \o closing>>
        ELSE <<blocks \o closing>>

\* greeting: the index Math.random picks
generateWeeklyReport(data, greeting) ==
    LET blocks == WeeklyBlocks(data, greeting)
        closing == <<context("OUTRO", <<>>), WeeklyFooter(data)>>
    IN  IF data.mtd.present
        THEN <<blocks,
               <<section("MONTH TO DATE", <<>>), codeBlock("formatMainTable", <<"mtd">>)>>
               \o closing>>
        ELSE <<blocks \o closing>>

generateMonthlyReport(data, greeting) ==
    LET blocks ==
            <<header("MONTHLY MARKETING REPORT"),
              context("Month", <<>>),
              section("MONTHLY_MESSAGES", <<DigitChars[greeting + 1]>>),
              section("MAIN METRICS", <<>>),
              codeBlock("formatMainTable", <<>>)>>
            \o (IF Len(data.trend) > 0
                THEN <<section("3-MONTH TREND", <<>>),
                       codeBlock("formatTrendTable", data.trend)>>
                ELSE <<>>)
        footer ==
            context("footer",
                    <<"Revenue figures include VAT">>
                    \o (IF Len(data.noSpendCountries) > 0
                        THEN <<"No spend">> \o data.noSpendCountries ELSE <<>>))
        closing == <<context("OUTRO", <<>>), footer>>
        hasChannels == \E i \in 1..Len(data.countries) :
                          Len(data.countries[i].channels) > 0
    IN  IF hasChannels
        THEN <<blocks, ChannelTables(data.countries) \o closing>>
        ELSE <<blocks \o closing>>

\* the countries of a report: one without channels and two with channels
ReportCountries ==
    {[shop |-> [code |-> "NO"], channels |-> <<>>],
     [shop |-> [code |-> "SE"], channels |-> <<"Meta">>],
     [shop |-> [code |-> "DK"], channels |-> <<"Meta", "Google">>]}

\* the report data that matter for the blocks
ReportData ==
    [countries : UNION {[1..n -> ReportCountries] : n \in 0..(MaxCountries - 2)},
     trend : {<<>>, <<"trend">>},
     mtd : {[present |-> FALSE], [present |-> TRUE]},
     pixelDataIncomplete : BOOLEAN,
     noSpendCountries : {<<>>, <<"UK">>}]

CallGenerateWeeklyReport ==
    \E data \in ReportData, greeting \in 0..(GreetingCount - 1) :
        Call("generateWeeklyReport", [data |-> data],
             generateWeeklyReport(data, greeting))

\* the monthly report data has no mtd and no pixelDataIncomplete
CallGenerateMonthlyReport ==
    \E data \in ReportData, greeting \in 0..(GreetingCount - 1) :
        /\ ~data.mtd.present /\ ~data.pixelDataIncomplete
        /\ Call("generateMonthlyReport", [data |-> data],
                generateMonthlyReport(data, greeting))

MessagesNext ==
    \/ CallGenerateWeeklyReport
    \/ CallGenerateMonthlyReport
    \/ Return

SpecMessages == AggInit /\ [][MessagesNext]_vars

(***************************************************************************)
(* A run of the weekly report (index.ts, slack.ts): the report data are    *)
(* put together, the messages are generated and sent one after the other.  *)
(* No sheet has a row in these runs, so no country has spend.              *)
(***************************************************************************)
\* the number of days after the first one on which a report can run
MaxReportDays == 100

\* isPixelDataIncomplete(endDate), on the day 'today'
isPixelDataIncomplete(endDate, today) ==
    LET end == ParseLocalDate(endDate)
        daysDiff == today - end
    IN  daysDiff <= 3 /\ daysDiff >= 0

\* the report data that sendWeeklyReport hands to generateWeeklyReport
WeeklyReportData(today) ==
    LET weekPeriod == getWeekPeriod(today, 1)
        monday == ParseLocalDate(weekPeriod.start)
        loaded == loadAllShopData(NoData)
        lastWeekSunday == ParseLocalDate(weekPeriod.end)
        mtdPeriod == getMTDPeriod(lastWeekSunday)
    IN  [weekNumber |-> getWeekNumber(monday),
         year |-> YearFromTime(monday),
         startDate |-> monday,
         endDate |-> lastWeekSunday,
         countries |-> <<>>,
         trend |-> [weeksAgo \in 1..3 |->
                       <<"Uke", getWeekNumber(ParseLocalDate(
                                    getWeekPeriod(today, weeksAgo).start))>>],
         noSpendCountries |-> getCountriesWithoutSpend(loaded, weekPeriod.start,
                                                       weekPeriod.end),
         pixelDataIncomplete |-> isPixelDataIncomplete(weekPeriod.end, today),
         mtd |-> IF mtdPeriod.start # weekPeriod.start
                 THEN [present |-> TRUE, label |-> mtdPeriod.label,
                       start |-> mtdPeriod.start, end |-> mtdPeriod.end,
                       countries |-> <<>>]
                 ELSE [present |-> FALSE]]

\* what a POST to the webhook can come to
FetchOutcomes == {"ok", "not ok", "exception"}

\* sendToSlack: true for an OK response, false for any other response and
\* for an exception, which is caught
sendToSlack(outcome) == outcome = "ok"

\* the loop of sendBlockMessages that ends at the first message that
\* was not sent
NextMessage_StopOnFailure(messages, results) ==
    IF Len(results) < Len(messages)
       /\ (results = <<>> \/ results[Len(results)].result)
    THEN Len(results) + 1 ELSE 0

\* for (const blocks of messages): the message that is sent next, 0 at the
\* end of the list
NextMessage(messages, results) ==
    IF Len(results) < Len(messages) THEN Len(results) + 1 ELSE 0

SendInit ==
    /\ now \in FirstDay..(FirstDay + MaxReportDays)
    /\ fn = "idle"
    /\ args = NoArgs
    /\ ret = NoRet
    /\ dailyMetrics = <<>>
    /\ metrics = NoMetrics
    /\ allData = NoData
    /\ countries = <<>>

\* sendWeeklyReport up to the call of sendBlockMessages; ret collects what
\* the awaited sendBlockMessage calls resolve to
CallSendWeeklyReport ==
    /\ Idle
    /\ \E greeting \in 0..(GreetingCount - 1) :
          LET reportData == WeeklyReportData(now)
          IN  args' = [reportData |-> reportData,
                       messages |-> generateWeeklyReport(reportData, greeting)]
    /\ fn' = "sendBlockMessages"
    /\ ret' = <<>>
    /\ UNCHANGED <<now, dailyMetrics, metrics, allData, countries>>

\* await sendBlockMessage(webhookUrl, blocks)
SendBlockMessage ==
    /\ fn = "sendBlockMessages"
    /\ NextMessage(args.messages, ret) # 0
    /\ \E outcome \in FetchOutcomes :
          ret' = Append(ret, [blocks |-> args.messages[NextMessage(args.messages, ret)],
                              outcome |-> outcome,
                              result |-> sendToSlack(outcome)])
    /\ UNCHANGED <<now, fn, args, dailyMetrics, metrics, allData, countries>>

\* console.log('Weekly report sent!')
ReportSent ==
    /\ fn = "sendBlockMessages"
    /\ NextMessage(args.messages, ret) = 0
    /\ fn' = "sent"
    /\ UNCHANGED <<now, args, ret, dailyMetrics, metrics, allData, countries>>

WeeklyNext ==
    \/ CallSendWeeklyReport
    \/ SendBlockMessage
    \/ ReportSent

SpecWeekly == SendInit /\ [][WeeklyNext]_vars

\* every awaited request settles, and the handler runs on
SpecWeeklyFair ==
    SendInit /\ [][WeeklyNext]_vars /\ WF_vars(SendBlockMessage) /\ WF_vars(ReportSent)

(***************************************************************************)
(* Two invocations of a report at once (sheets.ts, types.ts).  A Map and   *)
(* its rows are objects: allData is the sequence of the maps that were     *)
(* created, args[i] is the map invocation i holds (0 for none), fn[i] is   *)
(* where invocation i is and ret[i] is what it read for its report.        *)
(***************************************************************************)
Invocations == {1, 2}

\* new Map() that hands out the map of an earlier load again
NewMap_Shared(maps) == 1

\* new Map(): an object that did not exist before
NewMap(maps) == Len(maps) + 1

\* what the sheets hold when they are read: nothing, or one row of the sheet
\* of one of two shops with different VAT rates
SheetResults ==
    {NoData}
    \cup {[code \in {SHOPS[s].code} |->
              <<DayRecord(now, <<row[1], row[2]>>, row[3], row[4], row[5], row[6])>>] :
          s \in {1, 4}, row \in VatRows}

ConcurrentInit ==
    /\ now = FirstDay
    /\ fn = [i \in Invocations |-> "idle"]
    /\ args = [i \in Invocations |-> 0]
    /\ ret = [i \in Invocations |-> NoRet]
    /\ dailyMetrics = <<>>
    /\ metrics = NoMetrics
    /\ allData = <<>>
    /\ countries = <<>>

\* const allData = await loadAllShopData(credentials, shopCodes): the sheets
\* are read and set in a new map
AwaitLoadAllShopData(i) ==
    /\ fn[i] = "idle"
    /\ \E results \in SheetResults :
          LET dataMap == NewMap(allData)
              loaded == loadAllShopData(results)
          IN  /\ allData' = IF dataMap > Len(allData) THEN Append(allData, loaded)
                            ELSE [allData EXCEPT ![dataMap] = loaded]
              /\ args' = [args EXCEPT ![i] = dataMap]
    /\ fn' = [fn EXCEPT ![i] = "applyVatCorrection"]
    /\ UNCHANGED <<now, ret, dailyMetrics, metrics, countries>>

\* applyVatCorrection(allData); return allData: the rows of the map the
\* invocation holds are rewritten in place
ApplyVatCorrection(i) ==
    /\ fn[i] = "applyVatCorrection"
    /\ allData' = [allData EXCEPT ![args[i]] = applyVatCorrection(@)]
    /\ fn' = [fn EXCEPT ![i] = "loadAllMarketingData"]
    /\ UNCHANGED <<now, args, ret, dailyMetrics, metrics, countries>>

\* the report reads the rows of its map
ReadRecords(i) ==
    /\ fn[i] = "loadAllMarketingData"
    /\ ret' = [ret EXCEPT ![i] = allData[args[i]]]
    /\ fn' = [fn EXCEPT ![i] = "report"]
    /\ UNCHANGED <<now, args, dailyMetrics, metrics, allData, countries>>

ConcurrentNext ==
    \E i \in Invocations :
        \/ AwaitLoadAllShopData(i)
        \/ ApplyVatCorrection(i)
        \/ ReadRecords(i)

SpecConcurrent == ConcurrentInit /\ [][ConcurrentNext]_vars

(***************************************************************************)
(* Reference calendar definitions used to state the properties             *)
(***************************************************************************)
\* the Monday on or before t
MondayOf(t) == t - ((WeekDay(t) + 6) % 7)

\* Monday of ISO week 1 of year y: the week that contains January 4
Week1Monday(y) == MondayOf(MakeDay(y, 0, 4))

\* the ISO week-year of t
ISOYearRef(t) ==
    CHOOSE y \in (YearFromTime(t) - 1)..(YearFromTime(t) + 1) :
        Week1Monday(y) <= t /\ t < Week1Monday(y + 1)

\* the ISO-8601 week number of t
ISOWeekRef(t) == ((MondayOf(t) - Week1Monday(ISOYearRef(t))) \div 7) + 1

\* number of ISO weeks (52 or 53) of ISO year y
WeeksInISOYear(y) == (Week1Monday(y + 1) - Week1Monday(y)) \div 7

\* days of the 1-indexed month m of year y
DaysInMonthRef(y, m) ==
    IF m = 2 THEN (IF IsLeapYear(y) THEN 29 ELSE 28)
    ELSE IF m \in {4, 6, 9, 11} THEN 30 ELSE 31

YMD(y, m, d) == [year |-> y, month |-> m, day |-> d]

IsFeb29(t) == MonthFromTime(t) = 1 /\ DateFromTime(t) = 29

(***************************************************************************)
(* Properties of the period resolvers                                      *)
(***************************************************************************)

\* C1: getWeekNumber(d) is the ISO-8601 week number of d for every date d,
\* also at the year boundaries: 2024-12-30 is week 1, 2023-01-01 is week 52.
C1_WeekNumberIsISO ==
    fn = "getWeekNumber" =>
        /\ ret.week = ISOWeekRef(args.date)
        /\ formatLocalDate(args.date) = YMD(2024, 12, 30) => ret.week = 1
        /\ formatLocalDate(args.date) = YMD(2023, 1, 1) => ret.week = 52

C1_Witness ==
    /\ fn = "getWeekNumber"
    /\ formatLocalDate(args.date) = YMD(2024, 12, 30)
    /\ ret.week = 1

\* C2: getMonthPeriod(m, y) with a 1-indexed month m returns day 1 of month
\* m of year y through the last calendar day of that same month.
C2_MonthPeriodOneIndexed ==
    fn = "getMonthPeriod" =>
        /\ ret.start = YMD(args.year, args.month, 1)
        /\ ret.end = YMD(args.year, args.month,
                         DaysInMonthRef(args.year, args.month))

\* C3: the year-over-year range of getWTDPeriod(t) starts on the Monday of
\* the week with t's ISO week number in the year before t's ISO week-year
\* and ends the same number of days after it as t is after its own Monday.
C3_WTDYoYSameISOWeek ==
    fn = "getWTDPeriod" =>
        LET t == args.date
            w == ISOWeekRef(t)
            py == ISOYearRef(t) - 1
            refMonday == Week1Monday(py) + 7 * (w - 1)
        IN  w <= WeeksInISOYear(py) =>
                /\ ParseLocalDate(ret.yoyStart) = refMonday
                /\ ParseLocalDate(ret.yoyEnd) = refMonday + (t - MondayOf(t))

\* C4: for every through-date t, getWTDPeriod(t) has yoyEnd - yoyStart =
\* end - start in days, start is the Monday of t's week and end is t.
C4_WTDSameLength ==
    fn = "getWTDPeriod" =>
        LET s == ParseLocalDate(ret.start)
            e == ParseLocalDate(ret.end)
            ys == ParseLocalDate(ret.yoyStart)
            ye == ParseLocalDate(ret.yoyEnd)
        IN  /\ ye - ys = e - s
            /\ e - s \in 0..6
            /\ s = MondayOf(args.date)
            /\ WeekDay(s) = 1
            /\ e = args.date

C4_Witness ==
    /\ fn = "getWTDPeriod"
    /\ WeekDay(args.date) = 0
    /\ ParseLocalDate(ret.yoyEnd) - ParseLocalDate(ret.yoyStart) = 6
    /\ ret.start.year # ret.end.year

\* C5: getSameWeekLastYear(w, y) is a Monday-to-Sunday range of 7 days that
\* starts 7(w-1) days after the Monday of the week containing January 4 of
\* y-1, and getWeekNumber gives w for it whenever ISO year y-1 has a week w.
C5_SameWeekLastYear ==
    fn = "getSameWeekLastYear" =>
        LET s == ParseLocalDate(ret.start)
            e == ParseLocalDate(ret.end)
            w == args.weekNumber
            py == args.currentYear - 1
        IN  /\ e - s = 6
            /\ WeekDay(s) = 1
            /\ WeekDay(e) = 0
            /\ s = Week1Monday(py) + 7 * (w - 1)
            /\ w <= WeeksInISOYear(py) =>
                   /\ getWeekNumber(s) = w
                   /\ getWeekNumber(e) = w
                   /\ ISOYearRef(s) = py
                   /\ ISOYearRef(e) = py

C5_Witness ==
    /\ fn = "getSameWeekLastYear"
    /\ args.weekNumber = 53
    /\ WeeksInISOYear(args.currentYear - 1) = 53
    /\ getWeekNumber(ParseLocalDate(ret.start)) = 53

\* C6 (as claimed): getSameDayLastYear(d) returns start = end = the date with
\* d's month and day-of-month in the previous year, for every d.
C6_SameDayLastYearOrig ==
    fn = "getSameDayLastYear" =>
        LET d == formatLocalDate(args.date)
        IN  /\ ret.start = YMD(d.year - 1, d.month, d.day)
            /\ ret.end = ret.start

\* C6 (amended): getSameDayLastYear(d) returns start = end = the date with
\* d's month and day-of-month in the previous year for every d other than
\* February 29; for February 29 it returns March 1 of the previous year.
C6_SameDayLastYear ==
    fn = "getSameDayLastYear" =>
        LET d == formatLocalDate(args.date)
        IN  /\ ret.end = ret.start
            /\ ret.start = IF IsFeb29(args.date)
                           THEN YMD(d.year - 1, 3, 1)
                           ELSE YMD(d.year - 1, d.month, d.day)

C6_Witness ==
    /\ fn = "getSameDayLastYear"
    /\ IsFeb29(args.date)
    /\ ret.start = YMD(YearFromTime(args.date) - 1, 3, 1)

\* C7 (as claimed): getMTDPeriod(t) returns start = the 1st of t's month,
\* end = t, yoyStart = the 1st of that month a year earlier and yoyEnd = the
\* date a year earlier with t's month and day-of-month, for every t.
C7_MTDPeriodOrig ==
    fn = "getMTDPeriod" =>
        LET d == formatLocalDate(args.date)
        IN  /\ ret.start = YMD(d.year, d.month, 1)
            /\ ret.end = d
            /\ ret.yoyStart = YMD(d.year - 1, d.month, 1)
            /\ ret.yoyEnd = YMD(d.year - 1, d.month, d.day)
            /\ ret.yoyStart.day = ret.start.day
            /\ ret.yoyEnd.day = ret.end.day

\* C7 (amended): as claimed for every t other than February 29; for
\* t = February 29 the start, end and yoyStart are as claimed and yoyEnd is
\* March 1 of the previous year.
C7_MTDPeriod ==
    fn = "getMTDPeriod" =>
        LET d == formatLocalDate(args.date)
        IN  /\ ret.start = YMD(d.year, d.month, 1)
            /\ ret.end = d
            /\ ret.yoyStart = YMD(d.year - 1, d.month, 1)
            /\ ret.yoyEnd = IF IsFeb29(args.date)
                            THEN YMD(d.year - 1, 3, 1)
                            ELSE YMD(d.year - 1, d.month, d.day)

C7_Witness ==
    /\ fn = "getMTDPeriod"
    /\ IsFeb29(args.date)
    /\ ret.yoyStart = YMD(YearFromTime(args.date) - 1, 2, 1)
    /\ ret.yoyEnd = YMD(YearFromTime(args.date) - 1, 3, 1)

\* C8: getWeekPeriod(N) starts at now - k - 7N days, k in 0..6 being now's
\* weekday index counted from Monday (Sunday = 6): a Monday not after now;
\* it ends 6 days later, on a Sunday.
C8_WeekPeriod ==
    fn = "getWeekPeriod" =>
        LET k == (WeekDay(now) + 6) % 7
            s == ParseLocalDate(ret.start)
            e == ParseLocalDate(ret.end)
        IN  /\ k \in 0..6
            /\ s = now - k - 7 * args.weeksAgo
            /\ WeekDay(s) = 1
            /\ s <= now
            /\ e = s + 6
            /\ WeekDay(e) = 0

C8_Witness ==
    /\ fn = "getWeekPeriod"
    /\ WeekDay(now) = 0
    /\ args.weeksAgo = 1
    /\ ParseLocalDate(ret.start) = now - 13

\* C9: every period a resolver returns has start <= end, and every WTD/MTD
\* period also has yoyStart <= yoyEnd.
PeriodResolvers ==
    {"getYesterdayPeriod", "getWeekPeriod", "getMonthPeriod",
     "getPreviousMonthPeriod", "getWTDPeriod", "getMTDPeriod",
     "getSameDayLastYear", "getSameWeekLastYear", "getSameMonthLastYear"}

C9_StartNotAfterEnd ==
    fn \in PeriodResolvers =>
        /\ StrLE(ret.start, ret.end)
        /\ fn \in {"getWTDPeriod", "getMTDPeriod"} =>
               StrLE(ret.yoyStart, ret.yoyEnd)

C9_Witness ==
    /\ fn = "getPreviousMonthPeriod"
    /\ MonthFromTime(now) = 0
    /\ ret.month = 11
    /\ ret.year = YearFromTime(now) - 1
    /\ StrLE(ret.start, ret.end)
    /\ ret.start # ret.end

(***************************************************************************)
(* Properties of the period aggregation                                    *)
(***************************************************************************)
\* sum of a sequence of numbers, from the last element backwards
RECURSIVE RefSum(_)
RefSum(nums) ==
    IF nums = <<>> THEN 0
    ELSE nums[Len(nums)] + RefSum(SubSeq(nums, 1, Len(nums) - 1))

Column(field) == [i \in 1..Len(dailyMetrics) |-> dailyMetrics[i][field]]

\* equality of two fractions
SameNumber(r, q) == ~r.null /\ ~q.null /\ r.num * q.den = q.num * r.den

ChannelFields ==
    {"metaSpend", "metaPixelRevenue", "metaChannelRevenue", "metaPixelNcRevenue",
     "googleSpend", "googlePixelRevenue", "googleChannelRevenue",
     "googlePixelNcRevenue", "tiktokSpend", "tiktokPixelRevenue",
     "tiktokChannelRevenue", "tiktokPixelNcRevenue"}

\* C10: aggregatePeriodMetrics returns the field-wise sums of revenue, spend,
\* orders, newCustomerOrders and the twelve channel sub-totals (all 0 for the
\* empty sequence); aov and ncPercent are null exactly when the summed order
\* count is 0, otherwise revenue/orders and newCustomerOrders/orders * 100.
C10_AggregateSums ==
    fn = "aggregatePeriodMetrics" =>
        LET orders == RefSum(Column("orders"))
            revenue == RefSum(Column("orderRevenue"))
            nc == RefSum(Column("newCustomerOrders"))
        IN  /\ metrics.revenue = revenue
            /\ metrics.spend = RefSum(Column("spend"))
            /\ metrics.orders = orders
            /\ metrics.newCustomerOrders = nc
            /\ \A f \in ChannelFields : metrics[f] = RefSum(Column(f))
            /\ dailyMetrics = <<>> =>
                   /\ metrics.revenue = 0 /\ metrics.spend = 0
                   /\ metrics.orders = 0 /\ metrics.newCustomerOrders = 0
                   /\ \A f \in ChannelFields : metrics[f] = 0
            /\ metrics.aov.null <=> orders = 0
            /\ metrics.ncPercent.null <=> orders = 0
            /\ orders # 0 =>
                   /\ SameNumber(metrics.aov, Div(revenue, orders))
                   /\ SameNumber(metrics.ncPercent, Div(nc * 100, orders))

C10_Witness ==
    /\ fn = "aggregatePeriodMetrics"
    /\ Len(dailyMetrics) = 2
    /\ metrics.revenue = 250
    /\ metrics.orders = 0
    /\ metrics.aov.null
    /\ metrics.ncPercent.null

(***************************************************************************)
(* Properties of the channel ratios                                        *)
(***************************************************************************)
SpendField == [Meta |-> "metaSpend", Google |-> "googleSpend", TikTok |-> "tiktokSpend"]
PixelField ==
    [Meta |-> "metaPixelRevenue", Google |-> "googlePixelRevenue",
     TikTok |-> "tiktokPixelRevenue"]
ChannelRevenueField ==
    [Meta |-> "metaChannelRevenue", Google |-> "googleChannelRevenue",
     TikTok |-> "tiktokChannelRevenue"]
NcField ==
    [Meta |-> "metaPixelNcRevenue", Google |-> "googlePixelNcRevenue",
     TikTok |-> "tiktokPixelNcRevenue"]

\* channel ch has an entry in the returned list
Listed(ch) == \E i \in 1..Len(ret) : ret[i].channel = ch

\* C11: getChannelMetrics lists a channel exactly when its spend summed over
\* the period is greater than 0, whatever its revenue; every listed entry
\* carries that positive spend and three non-null ratios, each the channel's
\* summed revenue sub-total divided by the summed spend; and
\* calculateChannelROAS returns three nulls for any spend that is 0 or less.
C11_ChannelListing ==
    /\ fn = "getChannelMetrics" =>
          /\ \A ch \in Channels : Listed(ch) <=> RefSum(Column(SpendField[ch])) > 0
          /\ \A i \in 1..Len(ret) :
                LET ch == ret[i].channel
                    spend == RefSum(Column(SpendField[ch]))
                IN  /\ ch \in Channels
                    /\ ret[i].spend = spend
                    /\ spend > 0
                    /\ SameNumber(ret[i].pixelROAS,
                                  Div(RefSum(Column(PixelField[ch])), spend))
                    /\ SameNumber(ret[i].channelROAS,
                                  Div(RefSum(Column(ChannelRevenueField[ch])), spend))
                    /\ SameNumber(ret[i].ncROAS,
                                  Div(RefSum(Column(NcField[ch])), spend))
    /\ fn = "calculateChannelROAS" /\ args.spend <= 0 =>
          ret.pixelROAS.null /\ ret.channelROAS.null /\ ret.ncROAS.null

\* one channel with revenue and no spend is left out while another is listed
C11_Witness ==
    /\ fn = "getChannelMetrics"
    /\ \E ch \in Channels :
          /\ RefSum(Column(SpendField[ch])) = 0
          /\ RefSum(Column(PixelField[ch])) > 0
          /\ ~Listed(ch)
    /\ \E ch \in Channels : Listed(ch)

(***************************************************************************)
(* Properties of the country metrics                                       *)
(***************************************************************************)
ColumnOf(rows, field) == [i \in 1..Len(rows) |-> rows[i][field]]

\* the rows dated before the period of the call, and the rows from its start on
RowsBefore == Cardinality({i \in 1..Len(dailyMetrics) :
                              ~StrLE(args.startDate, dailyMetrics[i].date)})
PriorRows == SubSeq(dailyMetrics, 1, RowsBefore)
CurrentRows == SubSeq(dailyMetrics, RowsBefore + 1, Len(dailyMetrics))

CurrentRevenue == RefSum(ColumnOf(CurrentRows, "orderRevenue"))
CurrentSpend == RefSum(ColumnOf(CurrentRows, "spend"))
CurrentNcRevenue ==
    RefSum(ColumnOf(CurrentRows, "metaPixelNcRevenue"))
    + RefSum(ColumnOf(CurrentRows, "googlePixelNcRevenue"))
    + RefSum(ColumnOf(CurrentRows, "tiktokPixelNcRevenue"))
PriorRevenue == RefSum(ColumnOf(PriorRows, "orderRevenue"))

\* C12: getCountryMetrics returns roas = total revenue / total spend and
\* ncRoas = total new-customer revenue / total spend when the period's total
\* spend is greater than 0, and both exactly 0 when the total spend is 0.
C12_CountryRoas ==
    fn = "getCountryMetrics" =>
        IF CurrentSpend > 0
        THEN /\ SameNumber(ret.roas, Div(CurrentRevenue, CurrentSpend))
             /\ SameNumber(ret.ncRoas, Div(CurrentNcRevenue, CurrentSpend))
        ELSE /\ CurrentSpend = 0
             /\ ret.roas = Num(0)
             /\ ret.ncRoas = Num(0)

\* a shop with a foreign currency, spend, revenue and new-customer revenue in
\* the period, and rows in last year's period as well
C12_Witness ==
    /\ fn = "getCountryMetrics"
    /\ args.shop.code = "SE"
    /\ CurrentSpend > 0
    /\ CurrentRevenue > 0
    /\ CurrentNcRevenue > 0
    /\ RowsBefore > 0
    /\ ret.roas.num > 0

\* C13: the revenueYoY of the per-entity metrics is the period-a-year-before's
\* total revenue in the reporting currency when that is greater than 0, and
\* null otherwise: a revenue baseline, never a percentage change.
C13_RevenueYoYIsBaseline ==
    fn \in {"getCountryMetrics", "getCountryMetrics_typesTs"} =>
        IF PriorRevenue > 0
        THEN SameNumber(ret.revenueYoY,
                        Div(PriorRevenue * args.shop.exchangeRateToNOK.num,
                            args.shop.exchangeRateToNOK.den))
        ELSE ret.revenueYoY.null

(***************************************************************************)
(* Properties of the comparisons                                           *)
(***************************************************************************)
Formatters == {"formatChange", "formatYoY_first", "formatYoY"}

\* the baseline argument of the call
Baseline == IF fn \in {"formatYoY_first", "formatYoY"} THEN args.yoy ELSE args.previous

\* the texts that stand for a percentage beyond the cap
CapTexts == {"+999%", "-999%", ">999%", "<-999%"}

\* C14 as stated: with a null baseline the comparison yields the 'no data'
\* outcome for every current value, current > 0 included; never 'new', a
\* zero or an error.
C14_NullBaselineOrig ==
    fn \in Formatters /\ Baseline.null => ret = Text(EmDash)

\* C14: with a null baseline formatChange yields the 'no data' dash for every
\* current value; formatYoY, in both of its copies, yields 'NEW' when the
\* current value is greater than 0 and the 'no data' dash when it is 0 or
\* less; none yields a zero, a percentage or an error.
C14_NullBaseline ==
    /\ fn = "formatChange" /\ Baseline.null => ret = Text(EmDash)
    /\ fn \in {"formatYoY_first", "formatYoY"} /\ Baseline.null =>
          ret = IF args.current.num > 0 THEN Text("NEW") ELSE Text(EmDash)

\* the table formatter's formatYoY gets a positive revenue and no baseline
C14_Witness ==
    /\ fn = "formatYoY"
    /\ args.yoy.null
    /\ args.current.num > 0
    /\ ret = Text("NEW")

\* C15: with a baseline of exactly 0 the comparison yields 'new' exactly when
\* the current value is greater than 0 and 'no data' for every current value
\* that is 0 or less, negative ones included, the same for formatYoY and
\* formatChange.
C15_ZeroBaseline ==
    fn \in {"formatChange", "formatYoY"} /\ ~Baseline.null /\ Baseline.num = 0 =>
        ret = IF args.current.num > 0 THEN Text("NEW") ELSE Text(EmDash)

\* C16: with a negative baseline the comparison yields an anomaly marker that
\* is neither the 'no data' nor the 'new' outcome, and no ratio is computed.
C16_NegativeBaseline ==
    fn \in Formatters /\ ~Baseline.null /\ Baseline.num < 0 =>
        /\ ret.text \notin {EmDash, "NEW"}
        /\ ret.text \notin CapTexts \cup {"%"}

\* ((current / baseline) - 1) * 100 for whole current and baseline
RefChange == Frac((args.current.num - Baseline.num) * 100, Baseline.num)

\* t tenths is x rounded to one decimal
IsRoundedTenths(x, t) ==
    /\ (2 * t - 1) * x.den <= 20 * Abs(x.num)
    /\ 20 * Abs(x.num) < (2 * t + 1) * x.den

\* C17: with a baseline greater than 0 the comparison yields the percentage
\* ((current / baseline) - 1) * 100, saturated to 999 or -999 when its
\* magnitude is beyond 999: (50, 100) gives -50.0 and (100000, 1) gives the
\* cap 999, never 9999900.
C17_PositiveBaseline ==
    /\ fn = "formatYoY" /\ ~Baseline.null /\ Baseline.num > 0 =>
          IF RefChange.num > 999 * RefChange.den THEN ret = Text("+999%")
          ELSE IF RefChange.num < -999 * RefChange.den THEN ret = Text("-999%")
          ELSE /\ ret.text = "%"
               /\ ret.sign = (IF RefChange.num >= 0 THEN "+" ELSE "")
               /\ ret.negative = (RefChange.num < 0)
               /\ IsRoundedTenths(RefChange, ret.tenths)
    /\ fn = "calculateYoY" /\ Baseline.num > 0 =>
          IF RefChange.num > 999 * RefChange.den THEN SameNumber(ret, Num(999))
          ELSE IF RefChange.num < -999 * RefChange.den THEN SameNumber(ret, Num(-999))
          ELSE SameNumber(ret, RefChange)

(***************************************************************************)
(* Properties of the weighted totals                                       *)
(***************************************************************************)
\* sum of a sequence of fractions, from the first element on
RECURSIVE RefQSum(_)
RefQSum(nums) == IF nums = <<>> THEN Num(0) ELSE QAdd(Head(nums), RefQSum(Tail(nums)))

\* the total revenue of the countries handed to the call
RefTotalRevenue == RefQSum(ColumnOf(args.countries, "revenue"))

\* (sum of value * revenue) / (sum of revenue)
RefWeighted(field) ==
    QDiv(RefQSum([i \in 1..Len(args.countries) |->
                     QMul(args.countries[i][field], args.countries[i].revenue)]),
         RefTotalRevenue)

\* C18: for every list of country metrics whose revenues sum to more than 0,
\* calculateWeightedTotals returns totalRevenue, totalSpend and totalOrders
\* as the exact sums, and each weighted ratio (roas, ncRoas, ncPercent, aov)
\* as the sum over the countries of value * (revenue / total revenue);
\* A(revenue 100, ratio 10) with B(revenue 300, ratio 2) gives 4.
C18_WeightedByRevenue ==
    fn = "calculateWeightedTotals" /\ RefTotalRevenue.num > 0 =>
        /\ SameNumber(ret.totalRevenue, RefTotalRevenue)
        /\ SameNumber(ret.totalSpend, RefQSum(ColumnOf(args.countries, "spend")))
        /\ ret.totalOrders = RefSum(ColumnOf(args.countries, "orders"))
        /\ SameNumber(ret.weightedROAS, RefWeighted("roas"))
        /\ SameNumber(ret.weightedNCROAS, RefWeighted("ncRoas"))
        /\ SameNumber(ret.weightedNCPercent, RefWeighted("ncPercent"))
        /\ SameNumber(ret.weightedAOV, RefWeighted("aov"))

\* B(revenue 300, roas 2) and A(revenue 100, roas 10) combine to 4, not 6
C18_Witness ==
    /\ fn = "calculateWeightedTotals"
    /\ Len(args.countries) = 2
    /\ args.countries[1].revenue = Num(300) /\ args.countries[1].roas = Num(2)
    /\ args.countries[2].revenue = Num(100) /\ args.countries[2].roas = Num(10)
    /\ ret.weightedROAS = Num(4)

\* C19: when the revenues sum to 0, the empty list included, every weight is
\* 0 and the four weighted ratios are exactly 0; nothing is divided by zero.
C19_NoRevenue ==
    fn = "calculateWeightedTotals" /\ RefTotalRevenue.num = 0 =>
        /\ ret.weightedROAS = Num(0)
        /\ ret.weightedNCROAS = Num(0)
        /\ ret.weightedNCPercent = Num(0)
        /\ ret.weightedAOV = Num(0)
        /\ ret.totalRevenue = Num(0)

\* countries without revenue whose own ratios are not 0
C19_Witness ==
    /\ fn = "calculateWeightedTotals"
    /\ Len(args.countries) = 2
    /\ RefTotalRevenue.num = 0
    /\ \A i \in 1..2 : args.countries[i].ncRoas.num > 0
                       /\ args.countries[i].ncPercent.num > 0
    /\ ret.weightedNCROAS = Num(0)

(***************************************************************************)
(* Properties of the VAT correction                                        *)
(***************************************************************************)
\* the VAT rates of the shops in thousandths
VatPerMille ==
    [NO |-> 250, SE |-> 250, DK |-> 250, FI |-> 255, DE |-> 190, NL |-> 210,
     UK |-> 200, COM |-> 250]

RevenueFields ==
    {"orderRevenue", "metaPixelRevenue", "metaChannelRevenue", "metaPixelNcRevenue",
     "googlePixelRevenue", "googleChannelRevenue", "googlePixelNcRevenue",
     "tiktokPixelRevenue", "tiktokChannelRevenue", "tiktokPixelNcRevenue"}

UntouchedFields ==
    {"date", "spend", "orders", "newCustomerOrders", "metaSpend", "googleSpend",
     "tiktokSpend"}

\* C20: one run of applyVatCorrection divides orderRevenue and the nine
\* channel revenue fields of every daily record of every configured shop by
\* exactly 1 + vatRate of that shop (125 at 0.25 becomes 100) and leaves the
\* date, spend, orders, newCustomerOrders and the channel spend fields as
\* they were.
C20_VatCorrection ==
    fn = "applyVatCorrection" =>
        /\ DOMAIN allData = DOMAIN args.allData
        /\ \A code \in DOMAIN allData :
              /\ Len(allData[code]) = Len(args.allData[code])
              /\ \A i \in 1..Len(allData[code]) :
                    LET before == args.allData[code][i]
                        after == allData[code][i]
                    IN  /\ \A f \in RevenueFields :
                              /\ ~after[f].null
                              /\ after[f].num * (1000 + VatPerMille[code])
                                     = before[f] * 1000 * after[f].den
                        /\ \A f \in UntouchedFields : after[f] = before[f]

\* a Norwegian row with 125 of revenue becomes 100 while a Finnish row is
\* divided by 1.255
C20_Witness ==
    /\ fn = "applyVatCorrection"
    /\ DOMAIN allData = {"NO", "FI"}
    /\ args.allData["NO"][1].orderRevenue = 125
    /\ allData["NO"][1].orderRevenue = Num(100)
    /\ args.allData["FI"][1].metaPixelRevenue = 50
    /\ allData["FI"][1].metaPixelRevenue.num * 1255 = 50000 * allData["FI"][1].metaPixelRevenue.den
    /\ allData["FI"][1].metaSpend = 3

(***************************************************************************)
(* Properties of the marketing efficiency ratio                            *)
(***************************************************************************)
\* C22: the mer of an aggregated period is the period's total revenue divided
\* by its total spend.
C22_MerIsRevenueOverSpend ==
    fn = "aggregatePeriodMetrics" /\ RefSum(Column("spend")) > 0 =>
        SameNumber(metrics.mer,
                   Div(RefSum(Column("orderRevenue")), RefSum(Column("spend"))))

(***************************************************************************)
(* Properties of the period filter                                         *)
(***************************************************************************)
\* the rows of a sequence whose day number lies in lo..hi, built from the end
RECURSIVE RefRowsBetween(_, _, _)
RefRowsBetween(rows, lo, hi) ==
    IF rows = <<>> THEN <<>>
    ELSE LET last == rows[Len(rows)]
             rest == RefRowsBetween(SubSeq(rows, 1, Len(rows) - 1), lo, hi)
         IN  IF ParseLocalDate(last.date) \in lo..hi THEN Append(rest, last) ELSE rest

\* C23: for every sequence of records, in any order of dates, and every
\* start <= end, getMetricsForPeriod returns exactly the records dated from
\* start to end, both days included, in the order they came in, and leaves
\* the sequence it was given as it was.
C23_PeriodFilter ==
    fn = "getMetricsForPeriod" =>
        /\ ret = RefRowsBetween(args.allData, ParseLocalDate(args.startDate),
                                ParseLocalDate(args.endDate))
        /\ dailyMetrics = args.allData

\* two rows with the later date first, and a one-day period on the date of
\* the second row
C23_Witness ==
    /\ fn = "getMetricsForPeriod"
    /\ Len(args.allData) = 2
    /\ ParseLocalDate(args.allData[2].date) < ParseLocalDate(args.allData[1].date)
    /\ args.startDate = args.allData[2].date
    /\ args.endDate = args.startDate
    /\ ret = <<args.allData[2]>>

(***************************************************************************)
(* Properties of a report                                                  *)
(***************************************************************************)
\* the sum of a field over the rows of a shop dated from start to end
RefPeriodSum(rowsOfShops, code, field, start, end) ==
    IF code \in DOMAIN rowsOfShops
    THEN RefSum(ColumnOf(RefRowsBetween(rowsOfShops[code], ParseLocalDate(start),
                                        ParseLocalDate(end)),
                         field))
    ELSE 0

\* C21: the table of countries that a report computes from the loaded map
\* shows revenue without VAT: the revenue of every country in it, times
\* 1 + the VAT rate of its shop, is the revenue that was read from the sheet
\* for the period, in NOK.
C21_RevenueExVat ==
    [][fn = "loadAllMarketingData" /\ fn' = "getAllCountryMetrics" =>
          \A i \in 1..Len(ret') :
              LET country == ret'[i]
                  code == country.shop.code
                  gross == RefPeriodSum(args.results, code, "orderRevenue",
                                        args'.startDate, args'.endDate)
              IN  SameNumber(QMul(country.revenue, Div(1000 + VatPerMille[code], 1000)),
                             QMul(Num(gross), country.shop.exchangeRateToNOK))]_vars

\* the codes at the positions of a list
Codes(list) == {list[i] : i \in 1..Len(list)}

\* C24: for every loaded map and every period, each configured shop is in
\* exactly one of the lists of countries with and without spend, the first
\* one exactly when its spend summed over the period is positive, and the
\* table of countries has one entry for it exactly in that case.
C24_SpendPartition ==
    fn = "getCountriesWithoutSpend" =>
        LET withSpend == filterCountriesWithSpend(args.allData, args.startDate,
                                                  args.endDate)
        IN  \A s \in 1..Len(SHOPS) :
                LET code == SHOPS[s].code
                    spend == RefPeriodSum(args.allData, code, "spend",
                                          args.startDate, args.endDate)
                    inWith == Cardinality({i \in 1..Len(withSpend) : withSpend[i] = code})
                    inWithout == Cardinality({i \in 1..Len(ret) : ret[i] = code})
                    inTable == Cardinality({i \in 1..Len(countries) :
                                               countries[i].shop.code = code})
                IN  /\ inWith = (IF spend > 0 THEN 1 ELSE 0)
                    /\ inWithout = 1 - inWith
                    /\ inTable = inWith

\* a shop with spend in the period, a shop with rows but no spend in it and
\* shops without any row
C24_Witness ==
    /\ fn = "getCountriesWithoutSpend"
    /\ Len(countries) = 1
    /\ \E code \in Codes(ret) : args.allData[code] # <<>>
    /\ \E code \in Codes(ret) : args.allData[code] = <<>>
    /\ Len(ret) = Len(SHOPS) - 1

(***************************************************************************)
(* Properties of the cron handler                                          *)
(***************************************************************************)
\* the day of the week of a day number, counted from a known Monday
\* (2021-01-04 is day 18631), 1 = Monday .. 7 = Sunday
RefIsoWeekDay(day) == ((day - 18631) % 7) + 1

IsDateArg(a) == \E d \in Days : Chars(formatLocalDate(d)) = a
RefDayOf(a) == CHOOSE d \in Days : Chars(formatLocalDate(d)) = a

\* the argument has four digits, a hyphen, two digits, a hyphen, two digits
RefHasDateForm(a) ==
    /\ a # Undefined
    /\ Len(a) = 10
    /\ \A i \in {1, 2, 3, 4, 6, 7, 9, 10} : a[i] \in {DigitChars[d] : d \in 1..10}
    /\ a[5] = "-" /\ a[8] = "-"

RefValidShops(shops) ==
    shops = Undefined
    \/ \A i \in 1..Len(shops) : shops[i] \in {SHOPS[k].code : k \in 1..Len(SHOPS)}

\* C27: the tool answers with an error, before any credentials are read or
\* any sheet is loaded, when a date is missing or not of the form YYYY-MM-DD,
\* when the start is after the end, when the days from start to end, both
\* counted, are more than 400, or when a shop code is not a configured one;
\* a request for exactly 400 days with valid shops gets past these checks.
C27_Validation ==
    fn = "get_marketing_data" =>
        LET formOk == RefHasDateForm(args.start_date) /\ RefHasDateForm(args.end_date)
            datesOk == formOk /\ IsDateArg(args.start_date) /\ IsDateArg(args.end_date)
            span == RefDayOf(args.end_date) - RefDayOf(args.start_date) + 1
            rejected == ret.isError /\ ~ret.loaded
        IN  /\ ~formOk => rejected
            /\ datesOk /\ span < 1 => rejected
            /\ datesOk /\ span > 400 => rejected
            /\ ~RefValidShops(args.shops) => rejected
            /\ datesOk /\ span = 400 /\ RefValidShops(args.shops) => ret.loaded

\* a request for exactly 400 days of two shops that is answered with data
C27_Witness ==
    /\ fn = "get_marketing_data"
    /\ IsDateArg(args.start_date) /\ IsDateArg(args.end_date)
    /\ RefDayOf(args.end_date) - RefDayOf(args.start_date) + 1 = 400
    /\ args.shops = <<"UK", "COM">>
    /\ ~ret.isError

(***************************************************************************)
(* Properties of the messages of a report                                  *)
(***************************************************************************)
IsOutro(block) == block.type = "context" /\ block.text = "OUTRO"
IsFooter(block) ==
    block.type = "context" /\ Includes(block.parts, "Revenue figures include VAT")

\* the number of blocks of a kind over all messages
BlockCount(messages, Kind(_)) ==
    Cardinality({<<m, b>> \in (1..Len(messages)) \X (1..20) :
                    b <= Len(messages[m]) /\ Kind(messages[m][b])})

\* C28: the weekly report is two messages when it has month-to-date data and
\* one otherwise; the monthly report is two messages when some country has
\* channels and one otherwise; and in each case there is one outro block
\* and one footer block in all, the last two blocks of the last message.
C28_Messages ==
    fn \in {"generateWeeklyReport", "generateMonthlyReport"} =>
        LET data == args.data
            two == IF fn = "generateWeeklyReport" THEN data.mtd.present
                   ELSE \E i \in 1..Len(data.countries) :
                           data.countries[i].channels # <<>>
            last == ret[Len(ret)]
        IN  /\ Len(ret) = (IF two THEN 2 ELSE 1)
            /\ \A m \in 1..Len(ret) : Len(ret[m]) <= 20
            /\ BlockCount(ret, IsOutro) = 1
            /\ BlockCount(ret, IsFooter) = 1
            /\ Len(last) >= 2
            /\ IsOutro(last[Len(last) - 1])
            /\ IsFooter(last[Len(last)])

\* a weekly report in two messages for countries with and without channels
C28_Witness ==
    /\ fn = "generateWeeklyReport"
    /\ Len(ret) = 2
    /\ Len(args.data.countries) = 2
    /\ args.data.countries[1].channels = <<>>
    /\ args.data.countries[2].channels # <<>>
    /\ IsFooter(ret[2][4])

(***************************************************************************)
(* Properties of a run of the weekly report                                *)
(***************************************************************************)
\* the Monday of the week before the week of a day, counted from a known
\* Monday (2021-01-04 is day 18631)
RefReportedMonday(day) == day - ((day - 18631) % 7) - 7

\* the first day of the month of a day
RefMonthStart(day) == day - (formatLocalDate(day).day - 1)

\* C29: the weekly report has a month-to-date section exactly when the month
\* of the reported week's Sunday started before the reported week's Monday.
C29_MtdFromSecondWeek ==
    fn \in {"sendBlockMessages", "sent"} =>
        LET monday == RefReportedMonday(now)
            sunday == monday + 6
        IN  args.reportData.mtd.present <=> RefMonthStart(sunday) < monday

\* C30: every run of sendBlockMessages comes to its end, with each message of
\* the list attempted once, in the order of the list, whatever the attempts
\* came to: a response that is not OK and an exception both give false.
C30_EveryMessageAttempted ==
    (fn = "sendBlockMessages")
        ~> (/\ fn = "sent"
            /\ Len(ret) = Len(args.messages)
            /\ \A i \in 1..Len(ret) :
                  /\ ret[i].blocks = args.messages[i]
                  /\ ret[i].result = (ret[i].outcome = "ok"))

\* a run of two messages that is through although the first request threw
\* and the second one was answered with an error
C30_Witness ==
    /\ fn = "sent"
    /\ Len(ret) = 2
    /\ ret[1].outcome = "exception"
    /\ ret[2].outcome = "not ok"

====
